---- MODULE Spec2Model ----
(***************************************************************************)
(* Model of the SQLite-backed document store of the dictionary backend:    *)
(* class Database (data/database.js) and its use by DictionaryDatabase     *)
(* (dictionary/dictionary-database.js).                                    *)
(*                                                                         *)
(* The persisted database (PRAGMA user_version, tables, indices, rows) is  *)
(* the state behind the native _nativeSqlite* bindings; the Database       *)
(* object holds _handle, _native and _isOpening.  An async method yields   *)
(* at every await, so open() is a process that advances one SQL statement  *)
(* per step, and every other call may interleave between its steps.        *)
(***************************************************************************)
EXTENDS Integers, Sequences, FiniteSets, TLC

VARIABLES
    userVersion,    \* PRAGMA user_version of the database file
    tables,         \* names of the tables that exist in the file
    indices,        \* <<table, field>> pairs of the indices that exist
    rows,           \* table name -> sequence of [id, data] in rowid order
    seq,            \* table name -> last AUTOINCREMENT id handed out
    nativeConns,    \* handles of the connections the native side holds open
    handle,         \* Database._handle (NULL when null)
    native,         \* Database._native is not null
    isOpening,      \* Database._isOpening
    openPc,         \* statement the running open() is awaiting ("idle": none)
    openErr,        \* the awaited statement threw
    openVersion,    \* open(): argument version
    openStructure,  \* open(): the array structure (sorted in place by _performMigrations)
    currentVersion, \* open(): const currentVersion
    tableExists,    \* _createOrUpdateTable(): const tableExists
    si,             \* _performMigrations(): position in structure
    ti,             \* _applySchemaChanges(): position in Object.entries(schema.stores)
    ii,             \* _createIndices(): position in tableSchema.indices
    opened,         \* history: an open() has resolved since the handle was last null
    openPersisted,  \* history: user_version of the file when the running open() was called
    structureArg,   \* history: the array structure as the running open() was given it
    applied,        \* history: versions handed to _applySchemaChanges by the running open()
    ddl,            \* history: schema-changing statements issued by the running open()
    lastCall,       \* history: the call or step taken last, its inputs and its outcome
    fmCall,         \* findMultiBulk(): arguments of the running call (NoCall: none)
    fmPending,      \* findMultiBulk(): <<itemIndex, indexIndex>> -> rows its awaited query returned
    fmResults,      \* findMultiBulk(): const results
    visited,        \* findTermsBulk(): const visited
    bcCall,         \* bulkCount(): argument operations of the running call (NoCall: none)
    bcPending,      \* bulkCount(): index -> count its awaited query returned
    bcResults,      \* bulkCount(): const results (index -> count, once assigned)
    delName,        \* deleteDictionary(): argument dictionaryName
    delRate,        \* deleteDictionary(): argument progressRate
    delGroup,       \* deleteDictionary(): the group of targetGroups it awaits (0: not running)
    delPc,          \* bulkDelete() of each table: the statement it awaits
    delErr,         \* bulkDelete() of each table: the awaited statement threw
    delTotal,       \* bulkDelete() of each table: const totalCount
    delKeys,        \* bulkDelete() of each table: const filteredKeys
    progressData,   \* deleteDictionary(): const progressData
    bdCall,         \* bulkDelete(): arguments of the running call (NoCall: none)
    bdPc,           \* bulkDelete(): the statement it awaits ("idle": none)
    bdErr,          \* bulkDelete(): the awaited statement threw
    bdTotal,        \* bulkDelete(): const totalCount
    bdKeys,         \* bulkDelete(): const keys, then const filteredKeys
    bdLog,          \* history: what the running bulkDelete() has read, called and executed
    purgePc,        \* purge(): the call it awaits ("idle": not running)
    purgeResult,    \* purge(): let result
    purgeArgs,      \* history: the store when the running purge() was called
    wkPc,           \* _onMessageWithProgress(): what it awaits ("idle": no request)
    wkRequest,      \* the request message {action, params} given to _invoke (NoCall: none)
    wkResponse,     \* _onMessageWithProgress(): let response
    mq,             \* the promise jobs that are ready to run, in the order they run in
    all,            \* deleteDictionary(): the Promise.all of the group it awaits
    wkPosted,       \* history: the messages the handler of the request has posted
    inv,            \* _invoke(): const details, the worker's listeners, and what they did
    messageId,      \* chrome-mock: let messageId
    callbackRegistry, \* chrome-mock: const callbackRegistry (id -> callback)
    heap,           \* the params objects of the callers: object -> its messageId property
    responders,     \* the sendResponse closures listeners hold: the object each reads
    invoked,        \* history: the callbacks that were invoked, and for which message
    nativeMessageQueue,        \* content-script-main / popup-main: const nativeMessageQueue
    nativeQueueFlushScheduled, \* let nativeQueueFlushScheduled
    timers,         \* setTimeout(flushNativeMessageQueue, 50) calls that have not fired
    kmpJsBridge,    \* window.kmpJsBridge.callNative is a function
    postedCount,    \* history: the number of postMessageToNative calls
    delivered       \* history: the payloads handed to kmpJsBridge.callNative, in order

disk == <<userVersion, tables, indices, rows, seq>>
db == <<handle, native, isOpening>>
openLocals == <<openVersion, openStructure, currentVersion, tableExists, si, ti, ii>>
hist == <<opened, openPersisted, structureArg, applied, ddl>>
fm == <<fmCall, fmPending, fmResults, visited>>
bc == <<bcCall, bcPending, bcResults>>
del == <<delName, delRate, delGroup, delPc, delErr, delTotal, delKeys, progressData>>
bd == <<bdCall, bdPc, bdErr, bdTotal, bdKeys, bdLog>>
bulk == <<fm, bc, del, bd>>
purge == <<purgePc, purgeResult, purgeArgs>>
worker == <<wkPc, wkRequest, wkResponse, mq, all, wkPosted, inv>>
messaging == <<messageId, callbackRegistry, heap, responders, invoked>>
bridge == <<nativeMessageQueue, nativeQueueFlushScheduled, timers, kmpJsBridge, postedCount,
            delivered>>
ext == <<purge, worker, messaging, bridge>>
vars == <<disk, nativeConns, db, openPc, openErr, openLocals, hist, lastCall, bulk, ext>>

NULL == 0

----------------------------------------------------------------------------
(* Bounds of the model *)

MaxRows == 2        \* rows a table may hold
MaxIds == 3         \* ids a table hands out while bulkDelete calls run

----------------------------------------------------------------------------
(* The schema DictionaryDatabase.prepare() passes to Database.open() *)

Store(n, ix) == [name |-> n, indices |-> ix]

upgrade ==
    << [version |-> 20, stores |-> <<
            Store("terms", <<"dictionary", "expression", "reading">>),
            Store("kanji", <<"dictionary", "character">>),
            Store("tagMeta", <<"dictionary">>),
            Store("dictionaries", <<"title", "version">>) >>],
       [version |-> 30, stores |-> <<
            Store("termMeta", <<"dictionary", "expression">>),
            Store("kanjiMeta", <<"dictionary", "character">>),
            Store("tagMeta", <<"dictionary", "name">>) >>],
       [version |-> 40, stores |-> <<
            Store("terms", <<"dictionary", "expression", "reading", "sequence">>) >>],
       [version |-> 50, stores |-> <<
            Store("terms", <<"dictionary", "expression", "reading", "sequence",
                             "expressionReverse", "readingReverse">>) >>],
       [version |-> 60, stores |-> <<
            Store("media", <<"dictionary", "path">>) >>] >>

prepareVersion == 60

Range(s) == {s[i] : i \in 1..Len(s)}

TableNames == UNION {{st.name : st \in Range(e.stores)} : e \in Range(upgrade)}

(* Orders in which a caller may list the schema entries *)
Permute(s, p) == [i \in 1..Len(p) |-> s[p[i]]]
Structures ==
    { upgrade, Permute(upgrade, <<3, 1, 5, 2, 4>>) }

(* Versions a caller may pass to open() *)
Targets == {0, 30, 60}

----------------------------------------------------------------------------
(* _performMigrations: structure.sort((a, b) => a.version - b.version) *)

SortByVersion_Unsorted(s) == s

InsertByVersion(t, e) ==
    LET k == Cardinality({i \in 1..Len(t) : t[i].version <= e.version})
    IN  SubSeq(t, 1, k) \o <<e>> \o SubSeq(t, k + 1, Len(t))

RECURSIVE SortByVersion(_)
SortByVersion(s) ==
    IF Len(s) = 0 THEN s
    ELSE InsertByVersion(SortByVersion(SubSeq(s, 1, Len(s) - 1)), s[Len(s)])

InMigrationRange_NoLowerBound(schema, current, target) == schema.version <= target

(* _performMigrations: the condition under which a schema entry is applied *)
InMigrationRange(schema, current, target) ==
    schema.version > current /\ schema.version <= target

(* open(): the condition under which _performMigrations is called *)
NeedsMigration(current, target) == current < target

ReadUserVersion_AlwaysDefault(persisted) == 0

(* open(): const currentVersion = rows?.[0]?.user_version ?? 0 *)
ReadUserVersion(persisted) == persisted

(* _performMigrations: first entry at or after position from that is applied; *)
(* 0 when the for loop runs to its end                                        *)
NextSchema(structure, from, current, target) ==
    LET S == {i \in from..Len(structure) :
                 InMigrationRange(structure[i], current, target)}
    IN  IF S = {} THEN 0 ELSE CHOOSE i \in S : \A j \in S : i <= j

----------------------------------------------------------------------------
(* Control flow of open() between awaits.  A statement is named by the     *)
(* method that issues it; Continuation is the statement issued when the    *)
(* awaited one has resolved ("done": open() runs to its end).              *)

Stmt(pc, s, t, i, st) == [pc |-> pc, si |-> s, ti |-> t, ii |-> i, structure |-> st]
Done == Stmt("done", 0, 0, 0, <<>>)

EnterSchema_VersionOnly(st, s) == Stmt("setVersion", s, 0, 0, st)

(* _applySchemaChanges(structure[s]): first statement *)
EnterSchema(st, s) ==
    IF Len(st[s].stores) = 0 THEN Stmt("setVersion", s, 0, 0, st)
    ELSE Stmt("tableExists", s, 1, 0, st)

(* after _createOrUpdateTable of table t of entry s *)
AfterTable(st, s, t) ==
    IF t < Len(st[s].stores) THEN Stmt("tableExists", s, t + 1, 0, st)
    ELSE Stmt("setVersion", s, 0, 0, st)

(* _createIndices of table t of entry s, from index position i *)
EnterIndices(st, s, t, i) ==
    IF i <= Len(st[s].stores[t].indices) THEN Stmt("createIndex", s, t, i, st)
    ELSE AfterTable(st, s, t)

(* _performMigrations: the loop from position from *)
MigrateFrom(st, from) ==
    LET k == NextSchema(st, from, currentVersion, openVersion)
    IN  IF k = 0 THEN Done ELSE EnterSchema(st, k)

Continuation ==
    CASE openPc = "journal_mode" -> Stmt("synchronous", 0, 0, 0, openStructure)
      [] openPc = "synchronous" -> Stmt("journal_size_limit", 0, 0, 0, openStructure)
      [] openPc = "journal_size_limit" -> Stmt("jsonb", 0, 0, 0, openStructure)
      [] openPc = "jsonb" -> Stmt("user_version", 0, 0, 0, openStructure)
      [] openPc = "user_version" ->
            IF NeedsMigration(currentVersion, openVersion)
            THEN MigrateFrom(SortByVersion(openStructure), 1)
            ELSE Done
      [] openPc = "tableExists" ->
            IF ~tableExists THEN Stmt("createTable", si, ti, 0, openStructure)
            ELSE EnterIndices(openStructure, si, ti, 1)
      [] openPc = "createTable" -> EnterIndices(openStructure, si, ti, 1)
      [] openPc = "createIndex" -> EnterIndices(openStructure, si, ti, ii + 1)
      [] openPc = "setVersion" -> MigrateFrom(openStructure, si + 1)
      [] OTHER -> Done

IsDdl(pc) == pc \in {"createTable", "createIndex", "setVersion"}

(* _execute / _executeRaw issued by open(): throws when _handle is null or *)
(* when the native call reports an error; otherwise the statement acts on  *)
(* the database file.                                                      *)
Exec(stmt, h) ==
    LET schema == stmt.structure[stmt.si]
        store == schema.stores[stmt.ti]
        entered == stmt.si # 0 /\ openPc \in {"user_version", "setVersion"}
    IN
    /\ openPc' = stmt.pc
    /\ si' = stmt.si /\ ti' = stmt.ti /\ ii' = stmt.ii
    /\ openStructure' = stmt.structure
    /\ applied' = IF entered THEN Append(applied, schema.version) ELSE applied
    /\ UNCHANGED <<rows, seq>>
    /\ IF h = NULL
       THEN /\ openErr' = TRUE
            /\ UNCHANGED <<userVersion, tables, indices, currentVersion, tableExists, ddl>>
       ELSE \E success \in BOOLEAN :
            LET ok == success /\ (stmt.pc = "createIndex" => store.name \in tables) IN
            /\ openErr' = ~ok
            /\ ddl' = (ddl \/ IsDdl(stmt.pc))
            /\ currentVersion' =
                 IF ok /\ stmt.pc = "user_version" THEN ReadUserVersion(userVersion)
                 ELSE currentVersion
            /\ tableExists' =
                 IF ok /\ stmt.pc = "tableExists" THEN store.name \in tables
                 ELSE tableExists
            /\ tables' =
                 IF ok /\ stmt.pc = "createTable" THEN tables \cup {store.name}
                 ELSE tables
            /\ indices' =
                 IF ok /\ stmt.pc = "createIndex"
                 THEN indices \cup {<<store.name, store.indices[stmt.ii]>>}
                 ELSE indices
            /\ userVersion' =
                 IF ok /\ stmt.pc = "setVersion" THEN schema.version
                 ELSE userVersion

----------------------------------------------------------------------------
(* Documents.  A document is a function from field names to values; JSON   *)
(* text is the sequence of its members, and ok = FALSE is text that        *)
(* JSON.parse rejects.  jsonb(?) and json(data) keep the members of the    *)
(* text they are given, so a row's data is held as its JSON text.          *)

FieldOrder == <<"dictionary", "name", "id", "title", "expression", "reading",
                "expressionReverse", "readingReverse", "character", "mode", "path">>

(* Two tags of the same name in two dictionaries, and a document that has  *)
(* no name and carries an id member of its own                             *)
Doc1 == [dictionary |-> "A", name |-> "n1"]
Doc2 == [dictionary |-> "B", name |-> "n1"]
Doc3 == [dictionary |-> "A", id |-> 1]

EmptyDoc == <<>>

(* JSON.stringify(item) *)
JsonStringify(doc) ==
    LET fs == SelectSeq(FieldOrder, LAMBDA f : f \in DOMAIN doc)
    IN  [ok |-> TRUE, members |-> [i \in 1..Len(fs) |-> <<fs[i], doc[fs[i]]>>]]

(* JSON.parse(text) of text that parses: a repeated member name keeps the last value *)
JsonParse(text) ==
    LET m == text.members
        names == {m[i][1] : i \in 1..Len(m)}
        last(f) == CHOOSE i \in 1..Len(m) :
                      m[i][1] = f /\ \A j \in (i + 1)..Len(m) : m[j][1] # f
    IN  [f \in names |-> m[last(f)][2]]

safeJsonParse(text, fallback) == IF text.ok THEN JsonParse(text) ELSE fallback

(* {...doc, id} *)
WithId(doc, id) ==
    [f \in DOMAIN doc \cup {"id"} |-> IF f = "id" THEN id ELSE doc[f]]

(* json_extract(data, '$.field') = ? *)
FieldEquals(data, field, q) ==
    /\ data.ok
    /\ field \in DOMAIN JsonParse(data)
    /\ JsonParse(data)[field] = q

(* bulkAdd: the clamped count *)
ClampCount(len, start, count) ==
    IF start + count > len THEN len - start ELSE count

MinOf(a, b) == IF a < b THEN a ELSE b

Batch_ToEnd(items, start, count) == SubSeq(items, start + 1, Len(items))

(* bulkAdd: items.slice(start, Math.min(start + count, items.length)), start >= 0 *)
Batch(items, start, count) ==
    SubSeq(items, start + 1, MinOf(start + count, Len(items)))

(* INSERT INTO table (data) VALUES (jsonb(?)), ...: AUTOINCREMENT ids *)
InsertedRows(last, texts) ==
    [k \in 1..Len(texts) |-> [id |-> last + k, data |-> texts[k]]]

(* getAllEntries: rows.map((row) => ({...safeJsonParse(row.data, {}), id: row.id})) *)
AllEntries(rs) ==
    [k \in 1..Len(rs) |-> WithId(safeJsonParse(rs[k].data, EmptyDoc), rs[k].id)]

KeyOf_NoRange(query) == query.key

(* find: the IDBKeyRange.only(x) compatibility of the query argument *)
KeyOf(query) == IF query.range THEN query.lower ELSE query.key
Key(x) == [range |-> FALSE, key |-> x, lower |-> x]
Only(x) == [range |-> TRUE, key |-> "", lower |-> x]

(* The predicates callers pass to find: none (null), or                    *)
(* (row) => row.dictionary === dictionary as in findTagForTitle            *)
Holds(predicate, row, arg) ==
    IF predicate = "none" THEN TRUE
    ELSE "dictionary" \in DOMAIN row /\ row.dictionary = arg

Default == [kind |-> "default", row |-> EmptyDoc]
Found(row) == [kind |-> "row", row |-> row]

Call(op, err, a, r) == [op |-> op, err |-> err, a |-> a, r |-> r]
NoArgs == <<>>

(* What is recorded of an open() call: its arguments, the user_version of  *)
(* the file when it was called and the one it read, what it has applied    *)
OpenArgs(version, structure, persisted, current) ==
    [version |-> version, structure |-> structure, persisted |-> persisted,
     current |-> current]
OpenResult(app, d) == [applied |-> app, ddl |-> d]

(* deleteDictionary: progressData as it is initialised, less storeCount *)
NoProgress == [count |-> 0, processed |-> 0, storesProcesed |-> 0]

(* No bulk call is running.  The bulk calls do not share state, and the    *)
(* model runs one of them at a time.                                       *)
NoCall == [method |-> "none"]

(* No _invoke has been called: no worker, no listener, nothing posted *)
NoInvoke ==
    [complete |-> FALSE, formatResult |-> "null", listeners |-> <<>>, received |-> <<>>,
     settled |-> <<>>, forwarded |-> <<>>]
NoPromiseAll == [left |-> 0, settled |-> TRUE]
NoWorker ==
    /\ wkPc = "idle" /\ wkRequest = NoCall /\ wkResponse = NoArgs /\ mq = <<>>
    /\ all = NoPromiseAll /\ wkPosted = <<>> /\ inv = NoInvoke

(* chrome-mock.js as the module is loaded: no message has been sent *)
NoMessages ==
    /\ messageId = 0 /\ callbackRegistry = <<>> /\ heap = <<>>
    /\ responders = {} /\ invoked = <<>>

(* content-script-main.js as the module is loaded: the bridge is not there *)
NoBridge ==
    /\ nativeMessageQueue = <<>> /\ nativeQueueFlushScheduled = FALSE /\ timers = 0
    /\ kmpJsBridge = FALSE /\ postedCount = 0 /\ delivered = <<>>
NoBulkCalls ==
    /\ fmCall = NoCall /\ fmPending = <<>> /\ fmResults = <<>> /\ visited = {}
    /\ bcCall = NoCall /\ bcPending = <<>> /\ bcResults = <<>>
    /\ delName = "" /\ delRate = 0 /\ delGroup = 0
    /\ delPc = [t \in TableNames |-> "idle"]
    /\ delErr = [t \in TableNames |-> FALSE]
    /\ delTotal = [t \in TableNames |-> 0]
    /\ delKeys = [t \in TableNames |-> <<>>]
    /\ progressData = NoProgress
    /\ bdCall = NoCall /\ bdPc = "idle" /\ bdErr = FALSE /\ bdTotal = 0
    /\ bdKeys = <<>> /\ bdLog = NoArgs
    /\ purgePc = "idle" /\ purgeResult = FALSE /\ purgeArgs = NoArgs
    /\ NoWorker /\ NoMessages /\ NoBridge

----------------------------------------------------------------------------
Init ==
    /\ userVersion = 0 /\ tables = {} /\ indices = {}
    /\ rows = [t \in TableNames |-> <<>>]
    /\ seq = [t \in TableNames |-> 0]
    /\ nativeConns = {}
    /\ handle = NULL /\ native = FALSE /\ isOpening = FALSE
    /\ openPc = "idle" /\ openErr = FALSE
    /\ openVersion = 0 /\ openStructure = <<>> /\ currentVersion = 0
    /\ tableExists = FALSE /\ si = 0 /\ ti = 0 /\ ii = 0
    /\ opened = FALSE /\ openPersisted = 0 /\ structureArg = <<>>
    /\ applied = <<>> /\ ddl = FALSE
    /\ lastCall = Call("new", "", NoArgs, NoArgs)
    /\ NoBulkCalls

(* Database.isOpen() *)
isOpen == handle # NULL

(* _nativeSqliteOpen: a handle no open connection uses *)
NativeOpen == CHOOSE h \in 1..(Cardinality(nativeConns) + 1) : h \notin nativeConns

(* open() up to its first await: the two guards, then _nativeSqliteOpen   *)
(* and the first PRAGMA.  valid = FALSE is a native open that returns no  *)
(* usable handle: the throw runs the finally block in the same step.      *)
OpenCalled(version, structure, valid) ==
    /\ handle = NULL /\ ~isOpening
    /\ native' = TRUE
    /\ opened' = FALSE
    /\ IF valid
       THEN /\ isOpening' = TRUE
            /\ handle' = NativeOpen
            /\ nativeConns' = nativeConns \cup {NativeOpen}
            /\ openVersion' = version
            /\ openPersisted' = userVersion
            /\ structureArg' = structure
            /\ Exec(Stmt("journal_mode", 0, 0, 0, structure), NativeOpen)
            /\ lastCall' = Call("open", IF openErr' THEN "failing" ELSE "pending",
                                OpenArgs(version, structure, userVersion, 0),
                                OpenResult(<<>>, FALSE))
       ELSE /\ UNCHANGED <<isOpening, handle, nativeConns, disk>>
            /\ UNCHANGED <<openPc, openErr, openLocals, openPersisted, structureArg,
                           applied, ddl>>
            /\ lastCall' = Call("open", "Native SQLite open failed",
                                OpenArgs(version, structure, userVersion, 0),
                                OpenResult(<<>>, FALSE))

(* open(databaseName, version, structure) called on its own *)
OpenBegin(version, structure, valid) ==
    OpenCalled(version, structure, valid) /\ UNCHANGED <<bulk, ext>>

(* open(): one of the two guards throws *)
OpenRejected(version) ==
    /\ handle # NULL \/ isOpening
    /\ lastCall' = Call("open",
                        IF handle # NULL THEN "Database already open" ELSE "Already opening",
                        OpenArgs(version, <<>>, userVersion, 0),
                        [wasOpening |-> isOpening, wasOpened |-> opened])
    /\ UNCHANGED <<disk, nativeConns, db, openPc, openErr, openLocals, hist>>
    /\ UNCHANGED <<bulk, ext>>

(* open() resumes after an await that resolved and issues its next statement *)
OpenStep ==
    /\ openPc # "idle" /\ ~openErr
    /\ Continuation.pc # "done"
    /\ Exec(Continuation, handle)
    /\ lastCall' = Call("open", IF openErr' THEN "failing" ELSE "pending",
                        OpenArgs(openVersion, structureArg, openPersisted, currentVersion'),
                        OpenResult(applied', ddl'))
    /\ UNCHANGED <<nativeConns, db, openVersion, opened, openPersisted, structureArg>>
    /\ UNCHANGED <<bulk, ext>>

ResetOpenLocals ==
    /\ openPc' = "idle" /\ openErr' = FALSE
    /\ openVersion' = 0 /\ openStructure' = <<>> /\ currentVersion' = 0
    /\ tableExists' = FALSE /\ si' = 0 /\ ti' = 0 /\ ii' = 0
    /\ openPersisted' = 0 /\ structureArg' = <<>>
    /\ applied' = <<>> /\ ddl' = FALSE

(* open() resumes after its last await and resolves (finally block) *)
OpenDone ==
    /\ openPc # "idle" /\ ~openErr
    /\ Continuation.pc = "done"
    /\ isOpening' = FALSE
    /\ opened' = (handle # NULL)
    /\ lastCall' = Call("open", "",
                        OpenArgs(openVersion, structureArg, openPersisted, currentVersion),
                        OpenResult(applied, ddl))
    /\ ResetOpenLocals
    /\ UNCHANGED <<disk, nativeConns, handle, native>>
    /\ UNCHANGED <<bulk, ext>>

(* open() resumes after an await that threw: catch, rethrow, finally *)
OpenFail ==
    /\ openPc # "idle" /\ openErr
    /\ isOpening' = FALSE
    /\ lastCall' = Call("open", "error",
                        OpenArgs(openVersion, structureArg, openPersisted, currentVersion),
                        OpenResult(applied, ddl))
    /\ ResetOpenLocals
    /\ UNCHANGED <<disk, nativeConns, handle, native, opened>>
    /\ UNCHANGED <<bulk, ext>>

(* Database.close() *)
CloseCalled ==
    /\ lastCall' = Call("close",
                        IF handle = NULL \/ ~native THEN "Database is not open" ELSE "",
                        [wasOpened |-> opened, wasOpening |-> isOpening,
                         conns |-> nativeConns, handle |-> handle], NoArgs)
    /\ IF handle = NULL \/ ~native
       THEN UNCHANGED <<nativeConns, db, opened>>
       ELSE /\ nativeConns' = nativeConns \ {handle}
            /\ handle' = NULL
            /\ native' = FALSE
            /\ opened' = FALSE
            /\ UNCHANGED isOpening
    /\ UNCHANGED <<disk, openPc, openErr, openLocals, openPersisted, structureArg,
                   applied, ddl>>

Close == CloseCalled /\ UNCHANGED <<bulk, ext>>

(* Database.bulkAdd(objectStoreName, items, start, count): the whole call  *)
(* runs before its only await.  ok = FALSE is a native error on the INSERT.*)
BulkAdd(table, items, start, count, ok) ==
    LET c == ClampCount(Len(items), start, count)
        batch == Batch(items, start, c)
        texts == [k \in 1..Len(batch) |-> JsonStringify(batch[k])]
        args == [table |-> table, items |-> items, start |-> start, count |-> count,
                 opened |-> opened, opening |-> isOpening]
    IN
    /\ Len(rows[table]) + Len(batch) <= MaxRows
    /\ UNCHANGED <<userVersion, tables, indices, nativeConns, db,
                   openPc, openErr, openLocals, hist>>
    /\ IF handle = NULL
       THEN /\ lastCall' = Call("bulkAdd", "Database not open", args, [executed |-> FALSE])
            /\ UNCHANGED <<rows, seq>>
       ELSE IF c <= 0
       THEN /\ lastCall' = Call("bulkAdd", "", args, [executed |-> FALSE])
            /\ UNCHANGED <<rows, seq>>
       ELSE IF table \notin tables \/ ~ok \/ Len(batch) = 0
       THEN /\ lastCall' = Call("bulkAdd", "SQLite executeRaw failed", args,
                                [executed |-> TRUE])
            /\ UNCHANGED <<rows, seq>>
       ELSE /\ rows' = [rows EXCEPT ![table] = @ \o InsertedRows(seq[table], texts)]
            /\ seq' = [seq EXCEPT ![table] = @ + Len(texts)]
            /\ lastCall' = Call("bulkAdd", "", args, [executed |-> TRUE])
    /\ UNCHANGED <<bulk, ext>>

(* Database.getAllEntries(tableName) *)
GetAllEntries(table, ok) ==
    /\ lastCall' =
         IF handle = NULL
         THEN Call("getAllEntries", "Database not open", [table |-> table], <<>>)
         ELSE IF table \notin tables \/ ~ok
         THEN Call("getAllEntries", "SQLite execute failed", [table |-> table], <<>>)
         ELSE Call("getAllEntries", "", [table |-> table], AllEntries(rows[table]))
    /\ UNCHANGED <<disk, nativeConns, db, openPc, openErr, openLocals, hist>>
    /\ UNCHANGED <<bulk, ext>>

(* Database.find(tableName, indexName, query, predicate, predicateArg,     *)
(* defaultValue), with defaultValue null or undefined as its callers pass. *)
(* indexName = "" stands for every indexName that is not a non-empty       *)
(* string.  LIMIT 1 without ORDER BY: any one of the matching rows, the    *)
(* row at position pick.  A row whose data does not parse is replaced by   *)
(* defaultValue, on which the predicate's property access throws.          *)
Find(table, indexName, query, predicate, predicateArg, pick, ok) ==
    LET args == [table |-> table, indexName |-> indexName, query |-> query,
                 predicate |-> predicate, predicateArg |-> predicateArg,
                 open |-> handle # NULL, nativeOk |-> ok, pick |-> pick]
        match == {k \in 1..Len(rows[table]) :
                     FieldEquals(rows[table][k].data, indexName, KeyOf(query))}
        parsedData == safeJsonParse(rows[table][pick].data, EmptyDoc)
    IN
    /\ pick \in match \/ (match = {} /\ pick = 0)
    /\ lastCall' =
         IF handle = NULL
         THEN Call("find", "Database not open", args, Default)
         ELSE IF indexName = ""
         THEN Call("find", "", args, Default)
         ELSE IF table \notin tables \/ ~ok
         THEN Call("find", "SQLite execute failed", args, Default)
         ELSE IF match = {}
         THEN Call("find", "", args, Default)
         ELSE IF ~rows[table][pick].data.ok
         THEN IF predicate = "none" THEN Call("find", "", args, Default)
              ELSE Call("find", "TypeError", args, Default)
         ELSE IF Holds(predicate, parsedData, predicateArg)
         THEN Call("find", "", args, Found(parsedData))
         ELSE Call("find", "", args, Default)
    /\ UNCHANGED <<disk, nativeConns, db, openPc, openErr, openLocals, hist>>
    /\ UNCHANGED <<bulk, ext>>

(* The process is killed and restarted: the file keeps every statement    *)
(* that completed, and a new Database() is constructed.                   *)
Crash ==
    /\ handle # NULL \/ openPc # "idle"
    /\ nativeConns' = {}
    /\ handle' = NULL /\ native' = FALSE /\ isOpening' = FALSE
    /\ opened' = FALSE
    /\ ResetOpenLocals
    /\ lastCall' = Call("new", "", NoArgs, NoArgs)
    /\ fmCall' = NoCall /\ fmPending' = <<>> /\ fmResults' = <<>> /\ visited' = {}
    /\ bcCall' = NoCall /\ bcPending' = <<>> /\ bcResults' = <<>>
    /\ delName' = "" /\ delRate' = 0 /\ delGroup' = 0
    /\ delPc' = [t \in TableNames |-> "idle"]
    /\ delErr' = [t \in TableNames |-> FALSE]
    /\ delTotal' = [t \in TableNames |-> 0]
    /\ delKeys' = [t \in TableNames |-> <<>>]
    /\ progressData' = NoProgress
    /\ bdCall' = NoCall /\ bdPc' = "idle" /\ bdErr' = FALSE /\ bdTotal' = 0
    /\ bdKeys' = <<>> /\ bdLog' = NoArgs
    /\ purgePc' = "idle" /\ purgeResult' = FALSE /\ purgeArgs' = NoArgs
    /\ UNCHANGED <<disk, worker, messaging, bridge>>

DataTables == {"tagMeta"}

(* The inputs of bulkAdd: items lists, start and count on both sides of    *)
(* the ends of the list                                                    *)
ItemLists == {<<>>, <<Doc1>>, <<Doc2, Doc1>>, <<Doc1, Doc2, Doc3>>}

(* The inputs of find *)
FindInputs ==
    {[indexName |-> "name", query |-> q, predicate |-> p[1], predicateArg |-> p[2]] :
        q \in {Key("n1"), Key("n2"), Only("n1")},
        p \in {<<"none", "">>, <<"dictionaryIs", "A">>, <<"dictionaryIs", "B">>}}
    \cup {[indexName |-> "", query |-> Key("n1"), predicate |-> "none", predicateArg |-> ""]}

Next ==
    \/ \E v \in Targets, st \in Structures, valid \in BOOLEAN : OpenBegin(v, st, valid)
    \/ \E v \in Targets : OpenRejected(v)
    \/ OpenStep
    \/ OpenDone
    \/ OpenFail
    \/ Close
    \/ Crash
    \/ \E t \in DataTables, ok \in BOOLEAN : BulkAdd(t, <<Doc1>>, 0, 1, ok)

Spec == Init /\ [][Next]_vars

(* The store as DictionaryDatabase.prepare() leaves a new database file:   *)
(* every entry of upgrade applied, the connection open.                    *)
InitData ==
    /\ userVersion = prepareVersion
    /\ tables = TableNames
    /\ indices = UNION {UNION {{<<st.name, st.indices[i]>> : i \in 1..Len(st.indices)} :
                                  st \in Range(e.stores)} : e \in Range(upgrade)}
    /\ rows = [t \in TableNames |-> <<>>]
    /\ seq = [t \in TableNames |-> 0]
    /\ nativeConns = {1}
    /\ handle = 1 /\ native = TRUE /\ isOpening = FALSE
    /\ openPc = "idle" /\ openErr = FALSE
    /\ openVersion = 0 /\ openStructure = <<>> /\ currentVersion = 0
    /\ tableExists = FALSE /\ si = 0 /\ ti = 0 /\ ii = 0
    /\ opened = TRUE /\ openPersisted = 0 /\ structureArg = <<>>
    /\ applied = <<>> /\ ddl = FALSE
    /\ lastCall = Call("open", "", OpenArgs(prepareVersion, upgrade, 0, 0),
                       OpenResult(<<20, 30, 40, 50, 60>>, TRUE))
    /\ NoBulkCalls

NextData ==
    \/ \E t \in DataTables, items \in ItemLists, start \in 0..3, count \in -1..3,
          ok \in BOOLEAN :
            BulkAdd(t, items, start, count, ok)
    \/ \E t \in DataTables, ok \in BOOLEAN : GetAllEntries(t, ok)
    \/ \E t \in DataTables, inp \in FindInputs, pick \in 0..MaxRows, ok \in BOOLEAN :
            Find(t, inp.indexName, inp.query, inp.predicate, inp.predicateArg, pick, ok)
    \/ Close

SpecData == InitData /\ [][NextData]_vars

----------------------------------------------------------------------------
(* Deleting the database file *)

(* _nativeSqliteDeleteDatabase(databaseName) returns true: new connections *)
(* see an empty file                                                       *)
FileDeleted ==
    /\ userVersion' = 0 /\ tables' = {} /\ indices' = {}
    /\ rows' = [t \in TableNames |-> <<>>]
    /\ seq' = [t \in TableNames |-> 0]

(* What is recorded of the store when deleteDatabase or purge is called *)
StoreState ==
    [opening |-> isOpening, open |-> handle # NULL,
     held |-> \E t \in TableNames : rows[t] # <<>>]

(* Database.deleteDatabase(databaseName).  ok is what the native call      *)
(* returns.                                                                *)
DeleteDatabase(ok) ==
    /\ IF ok THEN FileDeleted ELSE UNCHANGED disk
    /\ lastCall' = Call("deleteDatabase", IF ok THEN "" ELSE "Failed to delete database",
                        StoreState, NoArgs)
    /\ UNCHANGED <<nativeConns, db, openPc, openErr, openLocals, hist, bulk, ext>>

(* DictionaryDatabase.purge() up to its first await: the isOpening guard   *)
(* and the call of deleteDatabase, whose error is caught and logged        *)
PurgeBegin(ok) ==
    /\ purgePc = "idle"
    /\ IF isOpening
       THEN /\ lastCall' = Call("purge", "Cannot purge database while opening",
                                StoreState, NoArgs)
            /\ UNCHANGED <<disk, purge>>
       ELSE /\ IF ok THEN FileDeleted ELSE UNCHANGED disk
            /\ purgePc' = "deleteDatabase"
            /\ purgeResult' = ok
            /\ purgeArgs' = StoreState
            /\ lastCall' = Call("purge", "pending", StoreState, NoArgs)
    /\ UNCHANGED <<nativeConns, db, openPc, openErr, openLocals, hist, bulk>>
    /\ UNCHANGED <<worker, messaging, bridge>>

(* purge() resumes after await this._db.deleteDatabase(...) and calls      *)
(* prepare(), which calls open(this._dbName, 60, upgrade): a guard of      *)
(* open() that throws rejects prepare() and with it purge()                *)
PurgePrepare(valid) ==
    /\ purgePc = "deleteDatabase"
    /\ IF handle # NULL \/ isOpening
       THEN /\ lastCall' = Call("purge",
                                IF handle # NULL THEN "Database already open"
                                ELSE "Already opening",
                                purgeArgs, [result |-> purgeResult])
            /\ purgePc' = "idle" /\ purgeResult' = FALSE /\ purgeArgs' = NoArgs
            /\ UNCHANGED <<disk, nativeConns, db, openPc, openErr, openLocals, hist>>
       ELSE /\ OpenCalled(prepareVersion, upgrade, valid)
            /\ purgePc' = "prepare"
            /\ UNCHANGED <<purgeResult, purgeArgs>>
    /\ UNCHANGED <<bulk, worker, messaging, bridge>>

(* purge() resumes after await this.prepare(): it returns result, or       *)
(* rejects when open() has thrown                                          *)
PurgeResuming == purgePc = "prepare" /\ openPc = "idle"
PurgeReturn ==
    /\ PurgeResuming
    /\ lastCall' = Call("purge", IF opened THEN "" ELSE "open failed",
                        purgeArgs, [result |-> purgeResult])
    /\ purgePc' = "idle" /\ purgeResult' = FALSE /\ purgeArgs' = NoArgs
    /\ UNCHANGED <<disk, nativeConns, db, openPc, openErr, openLocals, hist, bulk>>
    /\ UNCHANGED <<worker, messaging, bridge>>

(* No purge() is about to resume: it resumes before any other call is made *)
NoPurgeResuming == purgePc # "deleteDatabase" /\ ~PurgeResuming

NextPurge ==
    \/ \E valid \in BOOLEAN :
          NoPurgeResuming /\ OpenBegin(prepareVersion, upgrade, valid)
    \/ OpenStep
    \/ OpenDone
    \/ OpenFail
    \/ NoPurgeResuming /\ openPc = "idle" /\ Close
    \/ NoPurgeResuming /\ openPc = "idle" /\ BulkAdd("tagMeta", <<Doc1>>, 0, 1, TRUE)
    \/ \E ok \in BOOLEAN : purgePc = "idle" /\ DeleteDatabase(ok)
    \/ \E ok \in BOOLEAN : PurgeBegin(ok)
    \/ \E valid \in BOOLEAN : PurgePrepare(valid)
    \/ PurgeReturn

SpecPurge == Init /\ [][NextPurge]_vars

----------------------------------------------------------------------------
(* Bulk lookups.  Text that is cut, reversed or extended (terms, readings, *)
(* characters) is a sequence of characters; names of dictionaries, tags    *)
(* and modes are compared as a whole and are plain strings.                *)

(* stringReverse(item) of core/utilities.js *)
stringReverse(s) == [k \in 1..Len(s) |-> s[Len(s) + 1 - k]]

(* A terms row as the importer stores it, with its two reversed fields *)
TermDoc(dictionary, expression, reading) ==
    [dictionary |-> dictionary, expression |-> expression, reading |-> reading,
     expressionReverse |-> stringReverse(expression),
     readingReverse |-> stringReverse(reading)]

ab == <<"a", "b">>
Term1 == TermDoc("A", ab, ab)
Term2 == TermDoc("A", <<"a", "b", "c">>, <<"c", "a", "b">>)
Term3 == TermDoc("B", ab, <<"b">>)
Term4 == TermDoc("A", <<"a", "b", "%">>, <<"%", "a", "b">>)

Meta1 == [dictionary |-> "A", expression |-> ab, mode |-> "freq"]
Meta2 == [dictionary |-> "B", expression |-> ab, mode |-> "pitch"]
Meta3 == [dictionary |-> "A", expression |-> ab, mode |-> "other"]

Kanji1 == [dictionary |-> "A", character |-> <<"k">>]
Kanji2 == [dictionary |-> "B", character |-> <<"k">>]
KanjiMeta1 == [dictionary |-> "A", character |-> <<"k">>, mode |-> "freq"]
KanjiMeta2 == [dictionary |-> "B", character |-> <<"k">>, mode |-> "other"]

(* The callbacks DictionaryDatabase builds in its constructor *)
_createOnlyQuery1(item) == item
_createOnlyQuery2(item) == item.query
_createOnlyQuery3(item) == item.term
_createBoundQuery1(item) == item \o <<"%">>
_createBoundQuery2(item) == stringReverse(item) \o <<"%">>

CreateQuery(createQuery, item) ==
    CASE createQuery = "_createOnlyQuery1" -> _createOnlyQuery1(item)
      [] createQuery = "_createOnlyQuery2" -> _createOnlyQuery2(item)
      [] createQuery = "_createOnlyQuery3" -> _createOnlyQuery3(item)
      [] createQuery = "_createBoundQuery1" -> _createBoundQuery1(item)
      [] createQuery = "_createBoundQuery2" -> _createBoundQuery2(item)

(* row.f of a parsed row: undefined when the document has no member f *)
Undefined == "undefined"
Field(row, f) == IF f \in DOMAIN row THEN row[f] ELSE Undefined

HasDictionary_Any(dictionaries, row) == "dictionary" \in DOMAIN row

(* dictionaries.has(row.dictionary) *)
HasDictionary(dictionaries, row) ==
    "dictionary" \in DOMAIN row /\ row.dictionary \in dictionaries

(* The predicates of the bulk lookups; vis is the set visited of findTermsBulk *)
Predicate(predicate, row, item, dictionaries, vis) ==
    CASE predicate = "findTermsBulk" ->
            HasDictionary(dictionaries, row) /\ row.id \notin vis
      [] predicate = "findTermsExactBulk" ->
            /\ "reading" \in DOMAIN row /\ row.reading = item.reading
            /\ HasDictionary(dictionaries, row)
      [] predicate = "dictionaries.has" -> HasDictionary(dictionaries, row)
      [] predicate = "row.dictionary === item.dictionary" ->
            "dictionary" \in DOMAIN row /\ row.dictionary = item.dictionary

Visit_Forgets(predicate, row, item, dictionaries, vis) == vis

(* visited after the predicate has run on row *)
Visit(predicate, row, item, dictionaries, vis) ==
    IF predicate = "findTermsBulk" /\ Predicate(predicate, row, item, dictionaries, vis)
    THEN vis \cup {row.id} ELSE vis

_createTerm(matchSource, matchType, row, index) ==
    [index |-> index, matchType |-> matchType, matchSource |-> matchSource,
     term |-> Field(row, "expression"), reading |-> Field(row, "reading"),
     dictionary |-> Field(row, "dictionary"), id |-> row.id]

MatchedField_AlwaysExpression(row, data) == Field(row, "expression")

(* _createTermGeneric: the field the input term is compared with *)
MatchedField(row, data) ==
    IF data.indexIndex = 0 THEN Field(row, "expression") ELSE Field(row, "reading")

_createTermGeneric(matchType, row, data) ==
    _createTerm(IF data.indexIndex = 0 THEN "term" ELSE "reading",
                IF MatchedField(row, data) = data.item THEN "exact" ELSE matchType,
                row, data.itemIndex)

KnownModes == {"freq", "pitch", "ipa"}

Returns(value) == [throws |-> FALSE, value |-> value]
Throws == [throws |-> TRUE, value |-> <<>>]

(* createResult(row, data); "data" is the createResult of a caller that   *)
(* keeps what it is given                                                 *)
CreateResult(createResult, matchType, row, data) ==
    CASE createResult = "_createTermGeneric" ->
            Returns(_createTermGeneric(matchType, row, data))
      [] createResult = "_createTermExact" ->
            Returns(_createTerm("term", "exact", row, data.itemIndex))
      [] createResult = "_createTermMeta" ->
            IF Field(row, "mode") \in KnownModes
            THEN Returns([index |-> data.itemIndex, term |-> Field(row, "expression"),
                          mode |-> row.mode, dictionary |-> Field(row, "dictionary")])
            ELSE Throws
      [] createResult = "_createKanji" ->
            Returns([index |-> data.itemIndex, character |-> Field(row, "character"),
                     dictionary |-> Field(row, "dictionary")])
      [] createResult = "_createKanjiMeta" ->
            Returns([index |-> data.itemIndex, character |-> Field(row, "character"),
                     mode |-> Field(row, "mode"), dictionary |-> Field(row, "dictionary")])
      [] createResult = "data" -> Returns([row |-> row, data |-> data])

(* The arguments of one findMultiBulk or findFirstBulk call *)
BulkFind(method, table, indexColumns, items, createQuery, predicate, createResult, mt, ds) ==
    [method |-> method, table |-> table, indexColumns |-> indexColumns, items |-> items,
     createQuery |-> createQuery, predicate |-> predicate, createResult |-> createResult,
     matchType |-> mt, dictionaries |-> ds]

(* findTermsBulk: const indexNames *)
IndexNames(matchType) ==
    IF matchType = "suffix" THEN <<"expressionReverse", "readingReverse">>
    ELSE <<"expression", "reading">>

findTermsBulk(termList, dictionaries, matchType) ==
    BulkFind("findTermsBulk", "terms", IndexNames(matchType), termList,
             CASE matchType = "prefix" -> "_createBoundQuery1"
               [] matchType = "suffix" -> "_createBoundQuery2"
               [] OTHER -> "_createOnlyQuery1",
             "findTermsBulk", "_createTermGeneric", matchType, dictionaries)

findTermsExactBulk(termList, dictionaries) ==
    BulkFind("findTermsExactBulk", "terms", <<"expression">>, termList,
             "_createOnlyQuery3", "findTermsExactBulk", "_createTermExact", "", dictionaries)

findTermMetaBulk(termList, dictionaries) ==
    BulkFind("findTermMetaBulk", "termMeta", <<"expression">>, termList,
             "_createOnlyQuery1", "dictionaries.has", "_createTermMeta", "", dictionaries)

findKanjiBulk(kanjiList, dictionaries) ==
    BulkFind("findKanjiBulk", "kanji", <<"character">>, kanjiList,
             "_createOnlyQuery1", "dictionaries.has", "_createKanji", "", dictionaries)

findKanjiMetaBulk(kanjiList, dictionaries) ==
    BulkFind("findKanjiMetaBulk", "kanjiMeta", <<"character">>, kanjiList,
             "_createOnlyQuery1", "dictionaries.has", "_createKanjiMeta", "", dictionaries)

findTagMetaBulk(items) ==
    BulkFind("findTagMetaBulk", "tagMeta", <<"name">>, items,
             "_createOnlyQuery2", "row.dictionary === item.dictionary", "", "", {})

QueryRows_AllRows(table, indexName, query) == rows[table]

(* SELECT ... FROM table WHERE json_extract(data, '$.indexName') = ? *)
QueryRows(table, indexName, query) ==
    SelectSeq(rows[table], LAMBDA r : FieldEquals(r.data, indexName, query))

(* {...safeJsonParse(row.value, {}), id: row.id} *)
ParsedRow(r) == WithId(safeJsonParse(r.data, EmptyDoc), r.id)

(* findMultiBulk: the loop over the rows of one sub-query.  acc holds      *)
(* results, visited and whether createResult has thrown.                   *)
RECURSIVE ProcessRows(_, _, _, _)
ProcessRows(call, data, rs, acc) ==
    IF rs = <<>> \/ acc.threw THEN acc
    ELSE LET row == ParsedRow(Head(rs))
             pass == Predicate(call.predicate, row, data.item, call.dictionaries,
                               acc.visited)
             built == CreateResult(call.createResult, call.matchType, row, data)
         IN  ProcessRows(call, data, Tail(rs),
                 [results |-> IF pass /\ ~built.throws
                              THEN Append(acc.results,
                                          [value |-> built.value, row |-> row, data |-> data])
                              ELSE acc.results,
                  visited |-> Visit(call.predicate, row, data.item, call.dictionaries,
                                    acc.visited),
                  threw |-> pass /\ built.throws])

(* The {item, itemIndex, indexIndex} of the sub-query of items[i], indexColumns[j] *)
Data(call, i, j) == [item |-> call.items[i], itemIndex |-> i - 1, indexIndex |-> j - 1]

SubQueries(call) == (1..Len(call.items)) \X (1..Len(call.indexColumns))

(* What lastCall keeps of a bulk call: the method that was called *)
Method(call) == [method |-> call.method]

(* Database.findMultiBulk up to its first await: every sub-query is issued *)
(* in this step, and each of them is then awaited on its own.  ok = FALSE  *)
(* is a native error on a query.                                           *)
FindMultiBulkBegin(call, ok) ==
    /\ NoBulkCalls
    /\ IF Len(call.items) = 0 \/ Len(call.indexColumns) = 0
       THEN /\ lastCall' = Call("findMultiBulk", "", Method(call), <<>>)
            /\ UNCHANGED fm
       ELSE IF handle = NULL
       THEN /\ lastCall' = Call("findMultiBulk", "Database not open", Method(call), <<>>)
            /\ UNCHANGED fm
       ELSE IF call.table \notin tables \/ ~ok
       THEN /\ lastCall' = Call("findMultiBulk", "SQLite execute failed", Method(call), <<>>)
            /\ UNCHANGED fm
       ELSE /\ fmCall' = call
            /\ fmPending' = [p \in SubQueries(call) |->
                               QueryRows(call.table, call.indexColumns[p[2]],
                                         CreateQuery(call.createQuery, call.items[p[1]]))]
            /\ fmResults' = <<>>
            /\ visited' = {}
            /\ lastCall' = Call("findMultiBulk", "pending", Method(call), <<>>)
    /\ UNCHANGED <<disk, nativeConns, db, openPc, openErr, openLocals, hist, ext, bc, del, bd>>

(* findMultiBulk resumes after the await of the sub-query p *)
FindMultiBulkResume(p) ==
    /\ fmCall # NoCall
    /\ p \in DOMAIN fmPending
    /\ LET acc == ProcessRows(fmCall, Data(fmCall, p[1], p[2]), fmPending[p],
                              [results |-> fmResults, visited |-> visited, threw |-> FALSE])
       IN  IF acc.threw
           THEN /\ lastCall' = Call("findMultiBulk", "Unknown mode", Method(fmCall), <<>>)
                /\ fmCall' = NoCall /\ fmPending' = <<>> /\ fmResults' = <<>>
                /\ visited' = {}
           ELSE /\ fmResults' = acc.results
                /\ visited' = acc.visited
                /\ fmPending' = [q \in DOMAIN fmPending \ {p} |-> fmPending[q]]
                /\ lastCall' = Call("findMultiBulk", "pending", Method(fmCall), <<>>)
                /\ UNCHANGED fmCall
    /\ UNCHANGED <<disk, nativeConns, db, openPc, openErr, openLocals, hist, ext, bc, del, bd>>

(* findMultiBulk resumes after the outer Promise.all and returns results, *)
(* as they are in the state it resumes in                                 *)
FindMultiBulkReturn ==
    /\ fmCall # NoCall
    /\ DOMAIN fmPending = {}
    /\ lastCall' = Call("findMultiBulk", "", Method(fmCall), <<>>)
    /\ fmCall' = NoCall /\ fmPending' = <<>> /\ fmResults' = <<>> /\ visited' = {}
    /\ UNCHANGED <<disk, nativeConns, db, openPc, openErr, openLocals, hist, ext, bc, del, bd>>

(* A slot of the list findFirstBulk returns *)
UndefinedSlot == [kind |-> "undefined", row |-> EmptyDoc]

Reverse(s) == [k \in 1..Len(s) |-> s[Len(s) + 1 - k]]

(* SELECT ... FROM table WHERE json_extract(data, '$.indexColumns') IN (?, ...) *)
(* There is no ORDER BY: scan is the order the rows come back in.               *)
QueryRowsIn(table, indexColumns, queries, scan) ==
    LET found == SelectSeq(rows[table], LAMBDA r :
                    \E k \in 1..Len(queries) : FieldEquals(r.data, indexColumns, queries[k]))
    IN  IF scan = "rowid" THEN found ELSE Reverse(found)

(* new Map(rows.map((row) => [row[indexColumns], {...}])).get(query):      *)
(* the position in rs of the row the map holds for query, 0 for none.      *)
(* A later entry of the same key replaces an earlier one.                  *)
RowMapGet(rs, indexColumns, query) ==
    LET at == {k \in 1..Len(rs) : FieldEquals(rs[k].data, indexColumns, query)}
    IN  IF at = {} THEN 0 ELSE CHOOSE k \in at : \A l \in at : l <= k

Slot_NoPredicate(call, rs, item, query) ==
    LET k == RowMapGet(rs, call.indexColumns[1], query)
    IN  IF k # 0 THEN Found(ParsedRow(rs[k])) ELSE UndefinedSlot

(* findFirstBulk: row && predicate(row, item) ? row : undefined *)
Slot(call, rs, item, query) ==
    LET k == RowMapGet(rs, call.indexColumns[1], query)
    IN  IF k # 0 /\ Predicate(call.predicate, ParsedRow(rs[k]), item, call.dictionaries, {})
        THEN Found(ParsedRow(rs[k])) ELSE UndefinedSlot

(* Database.findFirstBulk(tableName, indexColumns, items, createQuery,     *)
(* predicate): one query, one await                                        *)
FindFirstBulk(call, scan, ok) ==
    LET queries == [k \in 1..Len(call.items) |-> CreateQuery(call.createQuery, call.items[k])]
        rs == QueryRowsIn(call.table, call.indexColumns[1], queries, scan)
        args == [call |-> call, scan |-> scan, returned |-> rs]
    IN
    /\ lastCall' =
         IF Len(call.items) = 0
         THEN Call("findFirstBulk", "", [call |-> call, scan |-> scan, returned |-> <<>>], <<>>)
         ELSE IF handle = NULL
         THEN Call("findFirstBulk", "Database not open", args, <<>>)
         ELSE IF call.table \notin tables \/ ~ok
         THEN Call("findFirstBulk", "SQLite execute failed", args, <<>>)
         ELSE Call("findFirstBulk", "", args,
                   [k \in 1..Len(call.items) |-> Slot(call, rs, call.items[k], queries[k])])
    /\ UNCHANGED <<disk, nativeConns, db, openPc, openErr, openLocals, hist, ext, bulk>>

(* The query of a count operation: null, or a string *)
NullQuery == [null |-> TRUE, value |-> ""]
StringQuery(v) == [null |-> FALSE, value |-> v]

CountOperation(table, column, query) == [table |-> table, column |-> column, query |-> query]

(* op.query ? ... : ... *)
Truthy(query) == ~query.null /\ query.value # ""

(* The count query of an operation: every row of table, or the rows with   *)
(* data->>'column' = ?                                                      *)
CountRows(op) ==
    IF Truthy(op.query)
    THEN Cardinality({k \in 1..Len(rows[op.table]) :
                         FieldEquals(rows[op.table][k].data, op.column, op.query.value)})
    ELSE Len(rows[op.table])

(* Database.bulkCount(operations) up to its first await: every count query *)
(* is issued in this step                                                  *)
BulkCountBegin(operations, ok) ==
    /\ NoBulkCalls
    /\ IF Len(operations) = 0
       THEN /\ lastCall' = Call("bulkCount", "", NoArgs, <<>>)
            /\ UNCHANGED bc
       ELSE IF handle = NULL
       THEN /\ lastCall' = Call("bulkCount", "Database not open", NoArgs, <<>>)
            /\ UNCHANGED bc
       ELSE IF ~ok \/ \E k \in 1..Len(operations) : operations[k].table \notin tables
       THEN /\ lastCall' = Call("bulkCount", "SQLite execute failed", NoArgs, <<>>)
            /\ UNCHANGED bc
       ELSE /\ bcCall' = [method |-> "bulkCount", operations |-> operations]
            /\ bcPending' = [k \in 1..Len(operations) |-> CountRows(operations[k])]
            /\ bcResults' = <<>>
            /\ lastCall' = Call("bulkCount", "pending", NoArgs, <<>>)
    /\ UNCHANGED <<disk, nativeConns, db, openPc, openErr, openLocals, hist, ext, fm, del, bd>>

(* bulkCount resumes after the await of the query of operations[index] *)
BulkCountResume(index) ==
    /\ bcCall # NoCall
    /\ index \in DOMAIN bcPending
    /\ bcResults' = [k \in DOMAIN bcResults \cup {index} |->
                        IF k = index THEN bcPending[index] ELSE bcResults[k]]
    /\ bcPending' = [k \in DOMAIN bcPending \ {index} |-> bcPending[k]]
    /\ lastCall' = Call("bulkCount", "pending", NoArgs, <<>>)
    /\ UNCHANGED <<disk, nativeConns, db, openPc, openErr, openLocals, hist, ext, fm, bcCall, del,
                   bd>>

(* bulkCount resumes after Promise.all and returns results, as they are   *)
(* in the state it resumes in                                             *)
BulkCountReturn ==
    /\ bcCall # NoCall
    /\ DOMAIN bcPending = {}
    /\ lastCall' = Call("bulkCount", "", NoArgs, <<>>)
    /\ bcCall' = NoCall /\ bcPending' = <<>> /\ bcResults' = <<>>
    /\ UNCHANGED <<disk, nativeConns, db, openPc, openErr, openLocals, hist, ext, fm, del, bd>>

(* DictionaryDatabase._createTermGeneric(matchType, row, data) *)
CreateTermGeneric(matchType, row, data) ==
    /\ lastCall' = Call("_createTermGeneric", "",
                        [matchType |-> matchType, row |-> row, data |-> data],
                        _createTermGeneric(matchType, row, data))
    /\ UNCHANGED <<disk, nativeConns, db, openPc, openErr, openLocals, hist, ext, bulk>>

----------------------------------------------------------------------------
(* The lookups on a prepared store that an import has filled *)

StoredDocuments ==
    { [t \in TableNames |->
          CASE t = "terms" -> <<Term1, Term2>>
            [] t = "termMeta" -> <<Meta1, Meta2>>
            [] t = "kanji" -> <<Kanji1, Kanji2>>
            [] t = "kanjiMeta" -> <<KanjiMeta1, KanjiMeta2>>
            [] t = "tagMeta" -> <<Doc1, Doc2>>
            [] OTHER -> <<>>],
      [t \in TableNames |->
          CASE t = "terms" -> <<Term3, Term1, Term4>>
            [] t = "termMeta" -> <<Meta3, Meta1>>
            [] t = "kanji" -> <<Kanji2>>
            [] t = "kanjiMeta" -> <<KanjiMeta2, KanjiMeta1>>
            [] t = "tagMeta" -> <<Doc2, Doc1, Doc3>>
            [] OTHER -> <<>>],
      [t \in TableNames |-> <<>>] }

(* The rows bulkAdd has stored for a list of documents *)
Stored(docs) == InsertedRows(0, [k \in 1..Len(docs) |-> JsonStringify(docs[k])])

MatchTypes == {"exact", "prefix", "suffix"}
DictionarySets == {{}, {"A"}, {"A", "B"}}
TermLists == {<<>>, <<ab>>, <<ab, ab>>, <<<<"c">>, ab>>}
KanjiLists == {<<<<"k">>>>, <<<<"k">>, <<"j">>>>}
TermExactRequest(term, reading) == [term |-> term, reading |-> reading]
TermExactLists == {<<TermExactRequest(ab, ab)>>,
                   <<TermExactRequest(ab, <<"b">>), TermExactRequest(ab, ab)>>}
DictionaryAndQueryRequest(query, dictionary) == [query |-> query, dictionary |-> dictionary]
TagLists == {<<>>,
             <<DictionaryAndQueryRequest("n1", "A")>>,
             <<DictionaryAndQueryRequest("n1", "B"), DictionaryAndQueryRequest("n2", "A"),
               DictionaryAndQueryRequest("n1", "A")>>}

(* The calls of findMultiBulk: those of DictionaryDatabase, and one with   *)
(* two index columns and a predicate that has no side effect               *)
FindMultiBulkCalls ==
    {findTermsBulk(l, d, m) : l \in TermLists, d \in DictionarySets, m \in MatchTypes}
    \cup {findTermMetaBulk(l, d) : l \in TermLists, d \in DictionarySets}
    \cup {findKanjiBulk(l, d) : l \in KanjiLists, d \in DictionarySets}
    \cup {findKanjiMetaBulk(l, d) : l \in KanjiLists, d \in DictionarySets}
    \cup {BulkFind("findMultiBulk", "terms", ix, l, "_createOnlyQuery1", "dictionaries.has",
                   "data", "", d) :
            ix \in {<<>>, <<"expression", "reading">>}, l \in TermLists,
            d \in DictionarySets}

FindTermsExactBulkCalls ==
    {findTermsExactBulk(l, d) : l \in TermExactLists, d \in DictionarySets}

CountOperationLists ==
    {<<>>,
     <<CountOperation("terms", "dictionary", StringQuery("A")),
       CountOperation("terms", "dictionary", NullQuery),
       CountOperation("tagMeta", "dictionary", StringQuery("B"))>>,
     <<CountOperation("terms", "dictionary", StringQuery("")),
       CountOperation("kanji", "dictionary", StringQuery("C"))>>}

TermData == {[item |-> i, itemIndex |-> 0, indexIndex |-> j] :
                i \in {ab, <<"c", "a", "b">>}, j \in {0, 1}}

InitFind ==
    /\ userVersion = prepareVersion
    /\ tables = TableNames
    /\ indices = UNION {UNION {{<<st.name, st.indices[i]>> : i \in 1..Len(st.indices)} :
                                  st \in Range(e.stores)} : e \in Range(upgrade)}
    /\ \E docs \in StoredDocuments :
          /\ rows = [t \in TableNames |-> Stored(docs[t])]
          /\ seq = [t \in TableNames |-> Len(docs[t])]
    /\ nativeConns = {1}
    /\ handle = 1 /\ native = TRUE /\ isOpening = FALSE
    /\ openPc = "idle" /\ openErr = FALSE
    /\ openVersion = 0 /\ openStructure = <<>> /\ currentVersion = 0
    /\ tableExists = FALSE /\ si = 0 /\ ti = 0 /\ ii = 0
    /\ opened = TRUE /\ openPersisted = 0 /\ structureArg = <<>>
    /\ applied = <<>> /\ ddl = FALSE
    /\ lastCall = Call("bulkAdd", "", NoArgs, [executed |-> TRUE])
    /\ NoBulkCalls

NextFind ==
    \/ \E call \in FindMultiBulkCalls, ok \in BOOLEAN : FindMultiBulkBegin(call, ok)
    \/ \E call \in FindTermsExactBulkCalls : FindMultiBulkBegin(call, TRUE)
    \/ \E p \in DOMAIN fmPending : FindMultiBulkResume(p)
    \/ FindMultiBulkReturn
    \/ \E l \in TagLists, scan \in {"rowid", "reverse"}, ok \in BOOLEAN :
          NoBulkCalls /\ FindFirstBulk(findTagMetaBulk(l), scan, ok)
    \/ \E ops \in CountOperationLists, ok \in BOOLEAN : BulkCountBegin(ops, ok)
    \/ \E k \in DOMAIN bcPending : BulkCountResume(k)
    \/ BulkCountReturn
    \/ \E m \in MatchTypes, row \in {WithId(Term1, 1), WithId(Term2, 2), WithId(Term4, 3)},
          data \in TermData :
          NoBulkCalls /\ CreateTermGeneric(m, row, data)

SpecFind == InitFind /\ [][NextFind]_vars

----------------------------------------------------------------------------
(* Reading a file that holds a document that is not well-formed.  The      *)
(* program writes documents with jsonb(JSON.stringify(item)) only, so such *)
(* a document is in the file when the store is opened.  What a statement   *)
(* that reads it with json(data) or json_extract(data, ...) does is up to  *)
(* the native side: the statement fails (ok = FALSE), or the document      *)
(* selects no row and is returned as text that JSON.parse rejects.         *)

MalformedText == [ok |-> FALSE, members |-> <<>>]
Malformed(table) == \E k \in 1..Len(rows[table]) : ~rows[table][k].data.ok

InitMalformed ==
    /\ userVersion = prepareVersion
    /\ tables = TableNames
    /\ indices = UNION {UNION {{<<st.name, st.indices[i]>> : i \in 1..Len(st.indices)} :
                                  st \in Range(e.stores)} : e \in Range(upgrade)}
    /\ \E docs \in StoredDocuments, bad \in SUBSET {"tagMeta", "kanji"} :
          /\ rows = [t \in TableNames |->
                        IF t \in bad
                        THEN Stored(docs[t]) \o <<[id |-> Len(docs[t]) + 1,
                                                   data |-> MalformedText]>>
                        ELSE Stored(docs[t])]
          /\ seq = [t \in TableNames |-> Len(docs[t]) + IF t \in bad THEN 1 ELSE 0]
    /\ nativeConns = {1}
    /\ handle = 1 /\ native = TRUE /\ isOpening = FALSE
    /\ openPc = "idle" /\ openErr = FALSE
    /\ openVersion = 0 /\ openStructure = <<>> /\ currentVersion = 0
    /\ tableExists = FALSE /\ si = 0 /\ ti = 0 /\ ii = 0
    /\ opened = TRUE /\ openPersisted = 0 /\ structureArg = <<>>
    /\ applied = <<>> /\ ddl = FALSE
    /\ lastCall = Call("open", "", NoArgs, NoArgs)
    /\ NoBulkCalls

NextMalformed ==
    \/ \E ok \in BOOLEAN :
          NoBulkCalls /\ (ok \/ Malformed("tagMeta")) /\ GetAllEntries("tagMeta", ok)
    \/ \E l \in TagLists, scan \in {"rowid", "reverse"}, ok \in BOOLEAN :
          /\ NoBulkCalls /\ (ok \/ Malformed("tagMeta"))
          /\ FindFirstBulk(findTagMetaBulk(l), scan, ok)
    \/ \E l \in KanjiLists, d \in DictionarySets, ok \in BOOLEAN :
          (ok \/ Malformed("kanji")) /\ FindMultiBulkBegin(findKanjiBulk(l, d), ok)
    \/ \E p \in DOMAIN fmPending : FindMultiBulkResume(p)
    \/ FindMultiBulkReturn

SpecMalformed == InitMalformed /\ [][NextMalformed]_vars

----------------------------------------------------------------------------
(* Counting the rows of dictionaries *)

(* getDictionaryCounts: const tables *)
CountTables == <<"kanji", "kanjiMeta", "terms", "termMeta", "tagMeta", "media">>

(* getDictionaryCounts: countOperations, the totals first when getTotal,   *)
(* then the operations of each name in the order of tables                 *)
CountOperations(dictionaryNames, getTotal) ==
    LET totals == IF getTotal
                  THEN [j \in 1..Len(CountTables) |->
                           CountOperation(CountTables[j], "dictionary", NullQuery)]
                  ELSE <<>>
        named == [k \in 1..(Len(dictionaryNames) * Len(CountTables)) |->
                     CountOperation(CountTables[((k - 1) % Len(CountTables)) + 1],
                                    "dictionary",
                                    StringQuery(dictionaryNames[((k - 1) \div Len(CountTables)) + 1]))]
    IN  totals \o named

(* getDictionaryCounts: result, read from rawCounts with resultIndex.      *)
(* total is null unless getTotal.                                          *)
DictionaryCounts(dictionaryNames, getTotal, rawCounts) ==
    LET first == IF getTotal THEN Len(CountTables) ELSE 0
        group(resultIndex) ==
            [t \in Range(CountTables) |->
                rawCounts[resultIndex + (CHOOSE j \in 1..Len(CountTables) : CountTables[j] = t)]]
    IN  [total |-> IF getTotal THEN [null |-> FALSE, value |-> group(0)]
                   ELSE [null |-> TRUE, value |-> <<>>],
         counts |-> [i \in 1..Len(dictionaryNames) |->
                        group(first + (i - 1) * Len(CountTables))]]

(* getDictionaryCounts(dictionaryNames, getTotal) up to its await: the     *)
(* call of bulkCount, which issues every count query                       *)
GetDictionaryCountsBegin(dictionaryNames, getTotal, ok) ==
    LET operations == CountOperations(dictionaryNames, getTotal)
        args == [dictionaryNames |-> dictionaryNames, getTotal |-> getTotal]
    IN
    /\ NoBulkCalls
    /\ IF Len(operations) > 0 /\ handle = NULL
       THEN /\ lastCall' = Call("getDictionaryCounts", "Database not open", args, <<>>)
            /\ UNCHANGED bc
       ELSE IF Len(operations) > 0 /\ ~ok
       THEN /\ lastCall' = Call("getDictionaryCounts", "SQLite execute failed", args, <<>>)
            /\ UNCHANGED bc
       ELSE /\ bcCall' = [method |-> "getDictionaryCounts", operations |-> operations,
                          dictionaryNames |-> dictionaryNames, getTotal |-> getTotal]
            /\ bcPending' = [k \in 1..Len(operations) |-> CountRows(operations[k])]
            /\ bcResults' = <<>>
            /\ lastCall' = Call("getDictionaryCounts", "pending", NoArgs, <<>>)
    /\ UNCHANGED <<disk, nativeConns, db, openPc, openErr, openLocals, hist, ext, fm, del, bd>>

(* getDictionaryCounts resumes after await this._db.bulkCount(...) and     *)
(* returns result                                                          *)
GetDictionaryCountsReturn ==
    /\ bcCall # NoCall /\ bcCall.method = "getDictionaryCounts"
    /\ DOMAIN bcPending = {}
    /\ lastCall' = Call("getDictionaryCounts", "", NoArgs, <<>>)
    /\ bcCall' = NoCall /\ bcPending' = <<>> /\ bcResults' = <<>>
    /\ UNCHANGED <<disk, nativeConns, db, openPc, openErr, openLocals, hist, ext, fm, del, bd>>

(* The getDictionaryCounts calls *)
GetDictionaryCountsCalls ==
    {[dictionaryNames |-> n, getTotal |-> g] :
        n \in {<<>>, <<"A">>, <<"">>, <<"B", "A">>}, g \in BOOLEAN}
    \ {[dictionaryNames |-> <<"B", "A">>, getTotal |-> TRUE]}

NextCounts ==
    \/ \E call \in GetDictionaryCountsCalls, ok \in BOOLEAN :
          GetDictionaryCountsBegin(call.dictionaryNames, call.getTotal, ok)
    \/ \E k \in DOMAIN bcPending : BulkCountResume(k)
    \/ GetDictionaryCountsReturn
    \/ NoBulkCalls /\ Close

SpecCounts == InitFind /\ [][NextCounts]_vars

----------------------------------------------------------------------------
(* Deleting a dictionary *)

(* deleteDictionary: const targetGroups *)
ContentTables == {"kanji", "kanjiMeta", "terms", "termMeta", "tagMeta", "media"}
ManifestTable == "dictionaries"
IndexOfTarget(table) == IF table = ManifestTable THEN "title" ELSE "dictionary"

(* SELECT id FROM table WHERE data->>'indexName' = ? *)
MatchingIds_AllIds(table, indexName, query) ==
    [k \in 1..Len(rows[table]) |-> rows[table][k].id]
MatchingIds(table, indexName, query) ==
    LET found == SelectSeq(rows[table], LAMBDA r : FieldEquals(r.data, indexName, query))
    IN  [k \in 1..Len(found) |-> found[k].id]

(* DELETE FROM table WHERE id IN (keys) *)
DeleteIds_All(rs, keys) == <<>>
DeleteIds(rs, keys) == SelectSeq(rs, LAMBDA r : r.id \notin Range(keys))

(* deleteDictionary: filterKeys(keys), on progressData *)
FilterKeysCalled(pd, keys) ==
    [pd EXCEPT !.storesProcesed = @ + 1, !.count = @ + Len(keys)]

(* deleteDictionary: onProgressWrapper(), on progressData *)
OnProgressCalled(pd) == [pd EXCEPT !.processed = @ + 1]

(* onProgressWrapper: the condition under which it sends a message *)
SendsProgress(pd, rate) == (pd.processed % rate) = 0 \/ pd.processed = pd.count

(* The pcs at which a bulkDelete awaits a statement *)
Awaiting == {"count", "keys", "delete", "vacuum"}
Settled == {"done", "failed"}

(* bulkDelete(table, indexName, query, filterKeys, onProgress) up to its   *)
(* first await, as the pc, the error flag and the total of its process:    *)
(* the handle check, then the count query.  ok = FALSE is a native error.  *)
BulkDeleteCalled(table, query, ok) ==
    IF handle = NULL THEN [pc |-> "failed", err |-> FALSE, total |-> 0]
    ELSE IF table \notin tables \/ ~ok THEN [pc |-> "count", err |-> TRUE, total |-> 0]
    ELSE [pc |-> "count", err |-> FALSE,
          total |-> Len(MatchingIds(table, IndexOfTarget(table), query))]

(* deleteDictionary(dictionaryName, progressRate, onProgress) up to its    *)
(* first await: the six bulkDelete calls of the first group                *)
DeleteDictionaryCalled(dictionaryName, progressRate, failing) ==
    LET called == [t \in ContentTables |->
                      BulkDeleteCalled(t, dictionaryName, t \notin failing)]
    IN
    /\ delName' = dictionaryName
    /\ delRate' = progressRate
    /\ delGroup' = 1
    /\ delPc' = [t \in TableNames |-> IF t \in ContentTables THEN called[t].pc ELSE "idle"]
    /\ delErr' = [t \in TableNames |-> t \in ContentTables /\ called[t].err]
    /\ delTotal' = [t \in TableNames |-> IF t \in ContentTables THEN called[t].total ELSE 0]
    /\ delKeys' = [t \in TableNames |-> <<>>]
    /\ progressData' = NoProgress
    /\ lastCall' = Call("deleteDictionary", "pending", [name |-> dictionaryName], NoArgs)
    /\ UNCHANGED <<disk, nativeConns, db, openPc, openErr, openLocals, hist, fm, bc, bd>>

DeleteDictionaryBegin(dictionaryName, progressRate, failing) ==
    /\ NoBulkCalls
    /\ DeleteDictionaryCalled(dictionaryName, progressRate, failing)
    /\ UNCHANGED ext

(* A bulkDelete resumes after an await.  After the count it takes the key  *)
(* snapshot, after the keys it calls filterKeys and issues the DELETE,     *)
(* after the DELETE it issues VACUUM, after VACUUM it calls onProgress.    *)
(* lastCall keeps the progress messages the step has sent.                 *)
BulkDeleteResumed(table, ok) ==
    LET pc == delPc[table]
        indexName == IndexOfTarget(table)
        fail == handle = NULL
        filtered == FilterKeysCalled(progressData, delKeys[table])
        sent(pd) == IF SendsProgress(pd, delRate) THEN <<pd>> ELSE <<>>
        step(msgs) == Call("bulkDelete", "pending", [table |-> table, pc |-> pc],
                           [sent |-> msgs])
    IN
    /\ pc \in Awaiting
    /\ UNCHANGED <<userVersion, tables, indices, seq, nativeConns, db, openPc, openErr,
                   openLocals, hist, fm, bc, bd, delName, delRate, delGroup, delTotal>>
    /\ IF delErr[table]
       THEN /\ delPc' = [delPc EXCEPT ![table] = "failed"]
            /\ delErr' = [delErr EXCEPT ![table] = FALSE]
            /\ lastCall' = step(<<>>)
            /\ UNCHANGED <<rows, delKeys, progressData>>
       ELSE IF pc = "count" /\ delTotal[table] = 0
       THEN /\ delPc' = [delPc EXCEPT ![table] = "done"]
            /\ progressData' = OnProgressCalled(progressData)
            /\ lastCall' = step(sent(OnProgressCalled(progressData)))
            /\ UNCHANGED <<rows, delKeys, delErr>>
       ELSE IF pc = "count"
       THEN /\ delPc' = [delPc EXCEPT ![table] = IF fail THEN "failed" ELSE "keys"]
            /\ delErr' = [delErr EXCEPT ![table] = ~fail /\ ~ok]
            /\ delKeys' = [delKeys EXCEPT ![table] =
                              IF fail \/ ~ok THEN <<>>
                              ELSE MatchingIds(table, indexName, delName)]
            /\ lastCall' = step(<<>>)
            /\ UNCHANGED <<rows, progressData>>
       ELSE IF pc = "keys" /\ Len(delKeys[table]) = 0
       THEN /\ delPc' = [delPc EXCEPT ![table] = "done"]
            /\ progressData' = OnProgressCalled(filtered)
            /\ lastCall' = step(<<filtered>> \o sent(OnProgressCalled(filtered)))
            /\ UNCHANGED <<rows, delKeys, delErr>>
       ELSE IF pc = "keys"
       THEN /\ progressData' = filtered
            /\ delPc' = [delPc EXCEPT ![table] = IF fail THEN "failed" ELSE "delete"]
            /\ delErr' = [delErr EXCEPT ![table] = ~fail /\ ~ok]
            /\ rows' = IF fail \/ ~ok THEN rows
                       ELSE [rows EXCEPT ![table] = DeleteIds(@, delKeys[table])]
            /\ lastCall' = step(<<filtered>>)
            /\ UNCHANGED delKeys
       ELSE IF pc = "delete"
       THEN /\ delPc' = [delPc EXCEPT ![table] = IF fail THEN "failed" ELSE "vacuum"]
            /\ delErr' = [delErr EXCEPT ![table] = ~fail /\ ~ok]
            /\ lastCall' = step(<<>>)
            /\ UNCHANGED <<rows, delKeys, progressData>>
       ELSE /\ delPc' = [delPc EXCEPT ![table] = "done"]
            /\ progressData' = OnProgressCalled(progressData)
            /\ lastCall' = step(sent(OnProgressCalled(progressData)))
            /\ UNCHANGED <<rows, delKeys, delErr>>

BulkDeleteResume(table, ok) == BulkDeleteResumed(table, ok) /\ UNCHANGED ext

(* deleteDictionary resumes after await Promise.all(promises).catch(...)   *)
(* of the first group, which settles when the six calls have resolved or   *)
(* when one of them has rejected, and calls bulkDelete on the manifest     *)
DeleteDictionaryNextGroupCalled(ok) ==
    LET called == BulkDeleteCalled(ManifestTable, delName, ok)
    IN
    /\ delGroup = 1
    /\ delGroup' = 2
    /\ delPc' = [delPc EXCEPT ![ManifestTable] = called.pc]
    /\ delErr' = [delErr EXCEPT ![ManifestTable] = called.err]
    /\ delTotal' = [delTotal EXCEPT ![ManifestTable] = called.total]
    /\ lastCall' = Call("deleteDictionary", "pending", [name |-> delName], NoArgs)
    /\ UNCHANGED <<disk, nativeConns, db, openPc, openErr, openLocals, hist, fm, bc, bd,
                   delName, delRate, delKeys, progressData>>

DeleteDictionaryNextGroup(ok) ==
    /\ \/ \A t \in ContentTables : delPc[t] = "done"
       \/ \E t \in ContentTables : delPc[t] = "failed"
    /\ DeleteDictionaryNextGroupCalled(ok)
    /\ UNCHANGED ext

(* deleteDictionary resumes after the await of the second group and        *)
(* resolves: a rejection is handed to console.error                        *)
DeleteDictionaryResolved ==
    /\ delGroup = 2
    /\ delGroup' = 0
    /\ lastCall' = Call("deleteDictionary", "",
                        [name |-> delName,
                         failed |-> {t \in TableNames : delPc[t] = "failed"},
                         running |-> {t \in TableNames : delPc[t] \in Awaiting}],
                        progressData)
    /\ UNCHANGED <<disk, nativeConns, db, openPc, openErr, openLocals, hist, fm, bc, bd,
                   delName, delRate, delPc, delErr, delTotal, delKeys, progressData>>

DeleteDictionaryResolve ==
    /\ delPc[ManifestTable] \in Settled
    /\ DeleteDictionaryResolved
    /\ UNCHANGED ext

Manifest(title) == [title |-> title]

StoredDictionaries ==
    { [t \in TableNames |->
          CASE t = "terms" -> <<Term1, Term3>>
            [] t = "tagMeta" -> <<Doc1>>
            [] t = "dictionaries" -> <<Manifest("A"), Manifest("B")>>
            [] OTHER -> <<>>],
      [t \in TableNames |->
          CASE t = "kanji" -> <<Kanji2, Kanji1>>
            [] t = "media" -> <<[dictionary |-> "A", path |-> "p"]>>
            [] OTHER -> <<>>],
      [t \in TableNames |->
          CASE t = "dictionaries" -> <<Manifest("A")>>
            [] OTHER -> <<>>] }


InitDelete ==
    /\ userVersion = prepareVersion
    /\ tables = TableNames
    /\ indices = UNION {UNION {{<<st.name, st.indices[i]>> : i \in 1..Len(st.indices)} :
                                  st \in Range(e.stores)} : e \in Range(upgrade)}
    /\ \E docs \in StoredDictionaries :
          /\ rows = [t \in TableNames |-> Stored(docs[t])]
          /\ seq = [t \in TableNames |-> Len(docs[t])]
    /\ nativeConns = {1}
    /\ handle = 1 /\ native = TRUE /\ isOpening = FALSE
    /\ openPc = "idle" /\ openErr = FALSE
    /\ openVersion = 0 /\ openStructure = <<>> /\ currentVersion = 0
    /\ tableExists = FALSE /\ si = 0 /\ ti = 0 /\ ii = 0
    /\ opened = TRUE /\ openPersisted = 0 /\ structureArg = <<>>
    /\ applied = <<>> /\ ddl = FALSE
    /\ lastCall = Call("bulkAdd", "", NoArgs, [executed |-> TRUE])
    /\ NoBulkCalls

(* No statement of the running deleteDictionary has failed: the model      *)
(* lets at most one statement of a call fail                               *)
NoFailure == \A t \in TableNames : ~delErr[t] /\ delPc[t] # "failed"

NextDelete ==
    \/ \E name \in {"A", "C"}, rate \in {1, 1000},
          failing \in {{}} \cup {{t} : t \in TableNames} :
             DeleteDictionaryBegin(name, rate, failing)
    \/ \E t \in TableNames, ok \in BOOLEAN :
          (ok \/ NoFailure) /\ BulkDeleteResume(t, ok)
    \/ \E ok \in BOOLEAN : (ok \/ NoFailure) /\ DeleteDictionaryNextGroup(ok)
    \/ DeleteDictionaryResolve
    \/ NoBulkCalls /\ Close

SpecDelete == InitDelete /\ [][NextDelete]_vars

----------------------------------------------------------------------------
(* The dictionary worker: DictionaryWorker._invoke and the                 *)
(* DictionaryWorkerHandler it creates in the same context.  The native     *)
(* bindings return synchronously, so the promise an await waits for is     *)
(* settled when it is awaited: the async functions resume as promise jobs, *)
(* which run first in, first out.                                          *)

(* undefined and null *)
Void == <<>>
Null == [null |-> TRUE]

(* ExtensionError.serialize(e), ExtensionError.deserialize(error) *)
Serialize(e) == [name |-> "Error", message |-> e]
Deserialize(error) == error.message

(* _onMessageWithProgress: let response *)
Response_Both(threw, value) == [result |-> value, error |-> Serialize(value)]
Response(threw, value) == IF threw THEN [error |-> Serialize(value)] ELSE [result |-> value]

(* A promise job: the function that resumes, and the table of a bulkDelete *)
Job(kind, table) == [job |-> kind, table |-> table]

(* deleteDictionary: targetGroups[0], in the order of the bulkDelete calls *)
ContentTargets == <<"kanji", "kanjiMeta", "terms", "termMeta", "tagMeta", "media">>

(* _invoke: worker.prepare() and worker.addEventListener('message', onMessage) *)
Listeners == <<"_messageHandler", "onMessage">>

(* DictionaryWorker._formatImportDictionaryResult(response) *)
FormatImportDictionaryResult(response) ==
    [result |-> response.result, errors |-> response.errors]

(* DictionaryWorker._onMessageComplete(params, resolve, reject,            *)
(* formatResult): the call that settles the promise                        *)
OnMessageComplete(params, formatResult) ==
    IF "error" \in DOMAIN params
    THEN [call |-> "reject", value |-> Deserialize(params.error)]
    ELSE IF formatResult = "null" THEN [call |-> "resolve", value |-> params.result]
    ELSE IF params.result = Void THEN [call |-> "reject", value |-> "TypeError"]
    ELSE [call |-> "resolve", value |-> FormatImportDictionaryResult(params.result)]

(* DictionaryWorker._onMessage(details, event), on details, the listeners  *)
(* of the worker and the record of what was called                         *)
OnMessage_Always(st, event) ==
    CASE event.action = "complete" ->
            [st EXCEPT !.complete = TRUE,
                       !.settled = Append(@, OnMessageComplete(event.params, st.formatResult))]
      [] event.action = "progress" ->
            [st EXCEPT !.forwarded = Append(@, event.params.args)]
      [] OTHER -> st
OnMessage(st, event) ==
    IF st.complete THEN st
    ELSE CASE event.action = "complete" ->
                 [st EXCEPT !.complete = TRUE, !.listeners = <<>>,
                            !.settled = Append(@, OnMessageComplete(event.params,
                                                                    st.formatResult))]
           [] event.action = "progress" ->
                 [st EXCEPT !.forwarded = Append(@, event.params.args)]
           [] OTHER -> st

(* DictionaryWorkerHandler.postMessage(message): _dispatchEvent calls the  *)
(* listeners.  The handler's own listener does nothing for 'complete' and  *)
(* 'progress'.                                                             *)
DispatchEvent(st, message) ==
    LET got == [st EXCEPT !.received = Append(@, message)]
    IN  IF \E k \in 1..Len(st.listeners) : st.listeners[k] = "onMessage"
        THEN OnMessage(got, message)
        ELSE got

(* The state of a call of _invoke once worker.postMessage({action,         *)
(* params}) has returned                                                   *)
Invoked(action, params, formatResult) ==
    DispatchEvent([NoInvoke EXCEPT !.listeners = Listeners, !.formatResult = formatResult],
                  [action |-> action, params |-> params])

(* No call of _invoke is running *)
NoInvokeRunning == wkPc \in {"idle", "done"} /\ mq = <<>> /\ openPc = "idle"

(* The locals of the deleteDictionary call of an earlier request are gone *)
NoDeleteDictionary ==
    /\ delName' = "" /\ delRate' = 0 /\ delGroup' = 0
    /\ delPc' = [t \in TableNames |-> "idle"]
    /\ delErr' = [t \in TableNames |-> FALSE]
    /\ delTotal' = [t \in TableNames |-> 0]
    /\ delKeys' = [t \in TableNames |-> <<>>]
    /\ progressData' = NoProgress

(* _invoke where globalThis.senderContext is not 1 *)
InvokeUnavailable(action) ==
    /\ NoInvokeRunning
    /\ wkPc' = "idle"
    /\ wkRequest' = [action |-> action, params |-> Void]
    /\ wkResponse' = NoArgs /\ mq' = <<>> /\ all' = NoPromiseAll /\ wkPosted' = <<>>
    /\ inv' = [NoInvoke EXCEPT
                  !.settled = <<[call |-> "reject", value |-> "DictionaryWorker unavailable"]>>]
    /\ lastCall' = Call("_invoke", "DictionaryWorker unavailable", NoArgs, NoArgs)
    /\ NoDeleteDictionary
    /\ UNCHANGED <<disk, nativeConns, db, openPc, openErr, openLocals, hist, fm, bc, bd,
                   purge, messaging, bridge>>

(* _invoke('importDictionary', ...) up to the await of the handler, where  *)
(* globalThis._nativeDictionaryImport is a function.  text is what it      *)
(* returns: an error text, a payload or the empty string.                  *)
InvokeImport(text) ==
    LET params == [details |-> Void, archiveContent |-> "a"]
        result == [result |-> IF text = "payload" THEN [title |-> "A"] ELSE Null,
                   errors |-> <<>>]
    IN
    /\ NoInvokeRunning
    /\ wkPc' = "handler"
    /\ wkRequest' = [action |-> "importDictionary", params |-> params]
    /\ wkResponse' = IF text = "error" THEN Response(TRUE, "import failed")
                     ELSE Response(FALSE, result)
    /\ mq' = <<Job("complete", "")>>
    /\ all' = NoPromiseAll /\ wkPosted' = <<>>
    /\ inv' = Invoked("importDictionary", params, "_formatImportDictionaryResult")
    /\ lastCall' = Call("_invoke", "pending", NoArgs, NoArgs)
    /\ NoDeleteDictionary
    /\ UNCHANGED <<disk, nativeConns, db, openPc, openErr, openLocals, hist, fm, bc, bd,
                   purge, messaging, bridge>>

(* _invoke(action, params, ...) for deleteDictionary and                   *)
(* getDictionaryCounts, up to the first await of                           *)
(* _getPreparedDictionaryDatabase: prepare() calls open()                  *)
InvokePrepare(action, params, valid) ==
    /\ NoInvokeRunning
    /\ OpenCalled(prepareVersion, upgrade, valid)
    /\ wkPc' = "prepare"
    /\ wkRequest' = [action |-> action, params |-> params]
    /\ wkResponse' = NoArgs /\ mq' = <<>> /\ all' = NoPromiseAll /\ wkPosted' = <<>>
    /\ inv' = Invoked(action, params, "null")
    /\ NoDeleteDictionary
    /\ UNCHANGED <<fm, bc, bd, purge, messaging, bridge>>

(* The handler resumes after await dictionaryDatabase.prepare().  A        *)
(* rejected prepare() rejects the handler.  _deleteDictionary calls        *)
(* deleteDictionary(dictionaryTitle, 1000, onProgress), which calls        *)
(* bulkDelete for the first group; _getDictionaryCounts calls              *)
(* getDictionaryCounts, whose queries all run in bulkCount before its      *)
(* first await.                                                            *)
HandlerPrepared(failing, ok) ==
    /\ wkPc = "prepare" /\ openPc = "idle"
    /\ wkPc' = "handler"
    /\ UNCHANGED <<wkRequest, wkPosted, inv, purge, messaging, bridge>>
    /\ IF ~opened
       THEN /\ wkResponse' = Response(TRUE, "open failed")
            /\ mq' = <<Job("complete", "")>>
            /\ UNCHANGED <<disk, nativeConns, db, openPc, openErr, openLocals, hist, lastCall,
                           bulk, all>>
       ELSE IF wkRequest.action = "deleteDictionary"
       THEN /\ DeleteDictionaryCalled(wkRequest.params.dictionaryTitle, 1000, failing)
            /\ mq' = [k \in 1..Len(ContentTargets) |-> Job("bulkDelete", ContentTargets[k])]
            /\ all' = [left |-> Len(ContentTargets), settled |-> FALSE]
            /\ UNCHANGED wkResponse
       ELSE LET names == wkRequest.params.dictionaryNames
                getTotal == wkRequest.params.getTotal
                operations == CountOperations(names, getTotal)
                rawCounts == [k \in 1..Len(operations) |-> CountRows(operations[k])]
            IN
            /\ wkResponse' = IF ok THEN Response(FALSE, DictionaryCounts(names, getTotal, rawCounts))
                             ELSE Response(TRUE, "SQLite execute failed")
            /\ mq' = <<Job("handler", "")>>
            /\ UNCHANGED <<disk, nativeConns, db, openPc, openErr, openLocals, hist, lastCall,
                           bulk, all>>

(* The bulkDelete of Head(mq).table resumes.  The progress messages it     *)
(* sends are posted in this step.                                          *)
RunBulkDelete(ok) ==
    /\ mq # <<>> /\ Head(mq).job = "bulkDelete"
    /\ BulkDeleteResumed(Head(mq).table, ok)
    /\ mq' = Append(Tail(mq),
                    Job(IF delPc'[Head(mq).table] \in Awaiting THEN "bulkDelete" ELSE "element",
                        Head(mq).table))
    /\ wkPosted' = wkPosted \o [k \in 1..Len(lastCall'.r.sent) |->
                                   [action |-> "progress", params |-> lastCall'.r.sent[k]]]
    /\ UNCHANGED <<wkPc, wkRequest, wkResponse, all, inv, purge, messaging, bridge>>

(* Promise.all(promises) is told that the bulkDelete of Head(mq).table has *)
(* settled: it rejects with the first rejection and resolves with the last *)
(* resolution.  The Promise.all of a group deleteDictionary has left is    *)
(* settled.                                                                *)
RunElement ==
    LET table == Head(mq).table
        awaited == (table \in ContentTables) = (delGroup = 1) /\ delGroup # 0
        settles == delPc[table] = "failed" \/ all.left = 1
    IN
    /\ mq # <<>> /\ Head(mq).job = "element"
    /\ IF awaited /\ ~all.settled
       THEN /\ all' = [left |-> IF delPc[table] = "failed" THEN all.left ELSE all.left - 1,
                       settled |-> settles]
            /\ mq' = IF settles THEN Append(Tail(mq), Job("catch", "")) ELSE Tail(mq)
       ELSE /\ mq' = Tail(mq)
            /\ UNCHANGED all
    /\ UNCHANGED <<disk, nativeConns, db, openPc, openErr, openLocals, hist, lastCall, bulk,
                   wkPc, wkRequest, wkResponse, wkPosted, inv, purge, messaging, bridge>>

(* .catch(console.error) of the settled Promise.all *)
RunCatch ==
    /\ mq # <<>> /\ Head(mq).job = "catch"
    /\ mq' = Append(Tail(mq), Job("await", ""))
    /\ UNCHANGED <<disk, nativeConns, db, openPc, openErr, openLocals, hist, lastCall, bulk,
                   wkPc, wkRequest, wkResponse, all, wkPosted, inv, purge, messaging, bridge>>

(* deleteDictionary resumes after the await of a group: it calls           *)
(* bulkDelete for the second group, or returns                             *)
RunAwait(ok) ==
    /\ mq # <<>> /\ Head(mq).job = "await"
    /\ IF delGroup = 1
       THEN /\ DeleteDictionaryNextGroupCalled(ok)
            /\ all' = [left |-> 1, settled |-> FALSE]
            /\ mq' = Append(Tail(mq),
                            Job(IF delPc'[ManifestTable] \in Awaiting THEN "bulkDelete"
                                ELSE "element", ManifestTable))
            /\ UNCHANGED wkResponse
       ELSE /\ DeleteDictionaryResolved
            /\ wkResponse' = Response(FALSE, Void)
            /\ mq' = Append(Tail(mq), Job("handler", ""))
            /\ UNCHANGED all
    /\ UNCHANGED <<wkPc, wkRequest, wkPosted, inv, purge, messaging, bridge>>

(* _deleteDictionary or _getDictionaryCounts resumes after its await: the  *)
(* finally block calls dictionaryDatabase.close()                          *)
RunHandler ==
    /\ mq # <<>> /\ Head(mq).job = "handler"
    /\ CloseCalled
    /\ mq' = Append(Tail(mq), Job("complete", ""))
    /\ UNCHANGED <<bulk, wkPc, wkRequest, wkResponse, all, wkPosted, inv, purge, messaging,
                   bridge>>

(* _onMessageWithProgress resumes after await handler(params, onProgress)  *)
(* and posts 'complete'                                                    *)
RunComplete ==
    LET message == [action |-> "complete", params |-> wkResponse]
    IN
    /\ mq # <<>> /\ Head(mq).job = "complete"
    /\ wkPosted' = Append(wkPosted, message)
    /\ inv' = DispatchEvent(inv, message)
    /\ wkPc' = "done"
    /\ mq' = Tail(mq)
    /\ UNCHANGED <<disk, nativeConns, db, openPc, openErr, openLocals, hist, lastCall, bulk,
                   wkRequest, wkResponse, all, purge, messaging, bridge>>

(* worker.postMessage(message) is called once more, before the handler is  *)
(* called or after it has posted 'complete': onProgress called late, or    *)
(* another 'complete'                                                      *)
MaxReceived == 4
ExtraMessages ==
    {[action |-> "progress", params |-> [args |-> <<1>>]],
     [action |-> "complete", params |-> [error |-> Serialize("late")]],
     [action |-> "complete", params |-> [result |-> [result |-> Null, errors |-> <<>>]]]}
PostMessage(message) ==
    /\ wkPc \in {"prepare", "done"} /\ mq = <<>> /\ openPc = "idle"
    /\ Len(inv.received) < MaxReceived
    /\ inv' = DispatchEvent(inv, message)
    /\ UNCHANGED <<disk, nativeConns, db, openPc, openErr, openLocals, hist, lastCall, bulk,
                   wkPc, wkRequest, wkResponse, mq, all, wkPosted, purge, messaging, bridge>>

(* A store that holds dictionaries and that no Database object has open *)
InitWorker ==
    /\ userVersion = prepareVersion
    /\ tables = TableNames
    /\ indices = UNION {UNION {{<<st.name, st.indices[i]>> : i \in 1..Len(st.indices)} :
                                  st \in Range(e.stores)} : e \in Range(upgrade)}
    /\ \E docs \in StoredDictionaries :
          /\ rows = [t \in TableNames |-> Stored(docs[t])]
          /\ seq = [t \in TableNames |-> Len(docs[t])]
    /\ nativeConns = {}
    /\ handle = NULL /\ native = FALSE /\ isOpening = FALSE
    /\ openPc = "idle" /\ openErr = FALSE
    /\ openVersion = 0 /\ openStructure = <<>> /\ currentVersion = 0
    /\ tableExists = FALSE /\ si = 0 /\ ti = 0 /\ ii = 0
    /\ opened = FALSE /\ openPersisted = 0 /\ structureArg = <<>>
    /\ applied = <<>> /\ ddl = FALSE
    /\ lastCall = Call("new", "", NoArgs, NoArgs)
    /\ NoBulkCalls

NextWorker ==
    \/ \E action \in {"importDictionary", "deleteDictionary", "getDictionaryCounts"} :
          InvokeUnavailable(action)
    \/ \E text \in {"error", "payload", ""} : InvokeImport(text)
    \/ \E title \in {"A", "C"}, valid \in BOOLEAN :
          InvokePrepare("deleteDictionary", [dictionaryTitle |-> title], valid)
    \/ \E getTotal \in BOOLEAN, valid \in BOOLEAN :
          InvokePrepare("getDictionaryCounts",
                        [dictionaryNames |-> <<"A">>, getTotal |-> getTotal], valid)
    \/ OpenStep
    \/ OpenDone
    \/ OpenFail
    \/ \E failing \in {{}} \cup {{t} : t \in ContentTables}, ok \in BOOLEAN :
          HandlerPrepared(failing, ok)
    \/ \E ok \in BOOLEAN : (ok \/ NoFailure) /\ RunBulkDelete(ok)
    \/ RunElement
    \/ RunCatch
    \/ \E ok \in BOOLEAN : (ok \/ NoFailure) /\ RunAwait(ok)
    \/ RunHandler
    \/ RunComplete
    \/ \E message \in ExtraMessages : PostMessage(message)

SpecWorker == InitWorker /\ [][NextWorker]_vars

----------------------------------------------------------------------------
(* chrome.runtime of chrome-mock.js.  A message given as an object is      *)
(* copied with {...message}: the copy shares the params object of the      *)
(* caller, which is where sendMessage writes messageId and where the       *)
(* sendResponse closure reads it.                                          *)

MaxMessages == 3
(* The params objects the callers pass *)
Objects == {1, 2}

(* callbackRegistry[id] = callback, on the registry as a function *)
Registered(registry, id, callback) ==
    [k \in DOMAIN registry \cup {id} |-> IF k = id THEN callback ELSE registry[k]]

(* delete callbackRegistry[id] *)
Unregistered(registry, id) == [k \in DOMAIN registry \ {id} |-> registry[k]]

(* The sendResponse closure of the message sent as sent, called when the   *)
(* params object it reads is object: the callback it finds is invoked with *)
(* the response and its entry is deleted.  The result is the registry and  *)
(* the record of invocations.                                              *)
SendResponseCalled(st, object, sent, objects) ==
    LET id == objects[object]
    IN  IF id \in DOMAIN st.registry /\ st.registry[id].defined
        THEN [registry |-> Unregistered(st.registry, id),
              invoked |-> Append(st.invoked, [callback |-> st.registry[id].of,
                                              response |-> sent])]
        ELSE st

RECURSIVE Responses(_, _, _, _, _)
(* The listeners call sendResponse count times while callListeners runs *)
Responses(st, object, sent, objects, count) ==
    IF count = 0 THEN st
    ELSE Responses(SendResponseCalled(st, object, sent, objects), object, sent, objects,
                   count - 1)

(* sendMessage and sendMessageWithSender: the message gets the next        *)
(* messageId, written into its params object; the callback (undefined      *)
(* when the caller gives none) is registered; the listeners are called.    *)
(* They call sendResponse count times before they return, and one of them  *)
(* keeps it when keeps.                                                    *)
Send(method, sender, object, defined, count, keeps) ==
    LET id == messageId
        objects == [o \in DOMAIN heap \cup {object} |-> IF o = object THEN id ELSE heap[o]]
        registry == Registered(callbackRegistry, id, [defined |-> defined, of |-> id])
        st == Responses([registry |-> registry, invoked |-> invoked], object, id, objects,
                        count)
    IN
    /\ messageId < MaxMessages
    /\ messageId' = id + 1
    /\ heap' = objects
    /\ callbackRegistry' = st.registry
    /\ invoked' = st.invoked
    /\ responders' = IF keeps THEN responders \cup {[object |-> object, sent |-> id]}
                     ELSE responders
    /\ lastCall' = Call(method, "", [sender |-> sender, object |-> object, id |-> id],
                        NoArgs)
    /\ UNCHANGED <<disk, nativeConns, db, openPc, openErr, openLocals, hist, bulk, purge,
                   worker, bridge>>

(* chrome.runtime.sendMessage(message, callback) *)
SendMessage(senderContext, object, defined, count, keeps) ==
    Send("sendMessage", senderContext, object, defined, count, keeps)

(* chrome.runtime.sendMessageWithSender(message, sender, callback) *)
SendMessageWithSender(sender, object, defined, count, keeps) ==
    Send("sendMessageWithSender", sender, object, defined, count, keeps)

(* A listener calls a sendResponse it has kept *)
SendResponse(closure) ==
    LET st == SendResponseCalled([registry |-> callbackRegistry, invoked |-> invoked],
                                 closure.object, closure.sent, heap)
    IN
    /\ closure \in responders
    /\ callbackRegistry' = st.registry
    /\ invoked' = st.invoked
    /\ lastCall' = Call("sendResponse", "", closure, NoArgs)
    /\ UNCHANGED <<disk, nativeConns, db, openPc, openErr, openLocals, hist, bulk, purge,
                   worker, bridge, messageId, heap, responders>>

NextMessages ==
    \/ \E object \in Objects, defined \in BOOLEAN, count \in 0..2, keeps \in BOOLEAN :
          SendMessage(1, object, defined, count, keeps)
    \/ \E object \in Objects, defined \in BOOLEAN, count \in 0..2, keeps \in BOOLEAN :
          SendMessageWithSender(2, object, defined, count, keeps)
    \/ \E closure \in responders : SendResponse(closure)

SpecMessages == Init /\ [][NextMessages]_vars

----------------------------------------------------------------------------
(* The outbound queue of content-script-main.js and popup-main.js: each    *)
(* context has its own nativeMessageQueue; the model is one context.       *)

MaxPosts == 4

(* flushNativeMessageQueue: nativeMessageQueue.length > 0, the condition   *)
(* under which a flush without a bridge schedules the next one             *)
StaysScheduled_Never(queue) == FALSE
StaysScheduled(queue) == Len(queue) > 0

(* postMessageToNative(message, sender).  payload is                       *)
(* JSON.stringify({message, sender}); the messages are numbered in the     *)
(* order in which they are posted.                                         *)
PostMessageToNative(sender) ==
    LET payload == [message |-> postedCount + 1, sender |-> sender]
    IN
    /\ postedCount < MaxPosts
    /\ postedCount' = postedCount + 1
    /\ IF kmpJsBridge
       THEN /\ delivered' = Append(delivered, payload)
            /\ UNCHANGED <<nativeMessageQueue, nativeQueueFlushScheduled, timers>>
       ELSE /\ nativeMessageQueue' = Append(nativeMessageQueue, payload)
            /\ nativeQueueFlushScheduled' = TRUE
            /\ timers' = IF nativeQueueFlushScheduled THEN timers ELSE timers + 1
            /\ UNCHANGED delivered
    /\ lastCall' = Call("postMessageToNative", "", [payload |-> payload,
                                                    bridge |-> kmpJsBridge], NoArgs)
    /\ UNCHANGED <<disk, nativeConns, db, openPc, openErr, openLocals, hist, bulk, purge,
                   worker, messaging, kmpJsBridge>>

(* A timer set with setTimeout(flushNativeMessageQueue, 50) fires *)
FlushNativeMessageQueue ==
    /\ timers > 0
    /\ IF ~kmpJsBridge
       THEN /\ nativeQueueFlushScheduled' = StaysScheduled(nativeMessageQueue)
            /\ timers' = IF StaysScheduled(nativeMessageQueue) THEN timers ELSE timers - 1
            /\ UNCHANGED <<nativeMessageQueue, delivered>>
       ELSE /\ nativeQueueFlushScheduled' = FALSE
            /\ timers' = timers - 1
            /\ delivered' = delivered \o nativeMessageQueue
            /\ nativeMessageQueue' = <<>>
    /\ lastCall' = Call("flushNativeMessageQueue", "",
                        [queue |-> nativeMessageQueue, bridge |-> kmpJsBridge], NoArgs)
    /\ UNCHANGED <<disk, nativeConns, db, openPc, openErr, openLocals, hist, bulk, purge,
                   worker, messaging, kmpJsBridge, postedCount>>

(* The page is given window.kmpJsBridge *)
BridgeInjected ==
    /\ ~kmpJsBridge
    /\ kmpJsBridge' = TRUE
    /\ lastCall' = Call("kmpJsBridge", "", NoArgs, NoArgs)
    /\ UNCHANGED <<disk, nativeConns, db, openPc, openErr, openLocals, hist, bulk, purge,
                   worker, messaging, nativeMessageQueue, nativeQueueFlushScheduled, timers,
                   postedCount, delivered>>

NextBridge ==
    \/ \E sender \in {2, 3} : PostMessageToNative(sender)
    \/ FlushNativeMessageQueue
    \/ BridgeInjected

SpecBridge == Init /\ [][NextBridge]_vars

(* A timer that has been set fires *)
SpecBridgeFair == SpecBridge /\ WF_vars(FlushNativeMessageQueue)

----------------------------------------------------------------------------
(* Database.bulkDelete called on its own *)

(* filterKeys(keys), for the filterKeys arguments of the model: null, or a  *)
(* function that returns the keys it is given ("all"), only the first of   *)
(* them, or none                                                           *)
FilterKeys(filterKeys, keys) ==
    CASE filterKeys = "all" -> keys
      [] filterKeys = "first" -> IF Len(keys) = 0 THEN <<>> ELSE <<keys[1]>>
      [] OTHER -> <<>>

(* DELETE FROM table WHERE data->>'indexName' = ? *)
DeleteMatching_AllRows(rs, indexName, query) == <<>>
DeleteMatching(rs, indexName, query) ==
    SelectSeq(rs, LAMBDA r : ~FieldEquals(r.data, indexName, query))

(* if (totalCount === 0) *)
NoMatch_Never(totalCount) == FALSE
NoMatch(totalCount) == totalCount = 0

(* What is recorded of a bulkDelete call: the tables when it was called,   *)
(* when it last read (with the ids handed out by then) and after its last  *)
(* step, whether they were written between its steps, the arguments of    *)
(* its calls of filterKeys and of onProgress, what filterKeys returned,    *)
(* and its DELETE statements                                               *)
NewLog ==
    [atCall |-> rows, atRead |-> rows, idsAtRead |-> seq, seen |-> rows, written |-> FALSE,
     filterKeys |-> <<>>, filtered |-> <<>>, onProgress |-> <<>>, deletes |-> 0]

(* if (onProgress) onProgress(completed, total); return;                   *)
(* as the outcome of the call and its log, for the onProgress arguments of *)
(* the model: null, a function that returns, a function that throws        *)
Progress(onProgress, log, completed, total) ==
    [outcome |-> IF onProgress = "throws" THEN "onProgress threw" ELSE "",
     log |-> IF onProgress = "null" THEN log
             ELSE [log EXCEPT !.onProgress = Append(@, <<completed, total>>)]]

(* The step of the running bulkDelete after the await at bdPc: its         *)
(* outcome ("pending" when it awaits again), the tables, the statement it  *)
(* awaits next and its locals.  ok = FALSE is a native error on the        *)
(* statement the step issues.                                              *)
BulkDeleteStep(ok) ==
    LET call == bdCall
        log == [bdLog EXCEPT !.written = @ \/ rows # bdLog.seen]
        same == [outcome |-> "pending", rows |-> rows, pc |-> bdPc, err |-> FALSE,
                 keys |-> bdKeys, log |-> log]
        settle(p) == [same EXCEPT !.outcome = p.outcome, !.log = p.log]
        throw(message) == [same EXCEPT !.outcome = message]
        filteredKeys == FilterKeys(call.filterKeys, bdKeys)
        filtered == [log EXCEPT !.filterKeys = Append(@, bdKeys), !.filtered = filteredKeys]
    IN
    IF bdErr THEN throw("SQLite execute failed")
    ELSE IF bdPc = "count" /\ NoMatch(bdTotal)
    THEN settle(Progress(call.onProgress, log, 0, 0))
    ELSE IF bdPc = "count" /\ call.filterKeys # "null"
    THEN IF handle = NULL THEN throw("Database not open")
         ELSE [same EXCEPT !.pc = "keys", !.err = ~ok,
                  !.keys = IF ok THEN MatchingIds(call.table, call.indexName, call.query)
                           ELSE <<>>,
                  !.log = [log EXCEPT !.atRead = rows, !.idsAtRead = seq]]
    ELSE IF bdPc = "count"
    THEN IF handle = NULL THEN throw("Database not open")
         ELSE IF ~ok THEN [same EXCEPT !.pc = "deleteAll", !.err = TRUE]
         ELSE [same EXCEPT !.pc = "deleteAll",
                  !.rows = [rows EXCEPT ![call.table] =
                               DeleteMatching(@, call.indexName, call.query)],
                  !.log = [log EXCEPT !.deletes = @ + 1]]
    ELSE IF bdPc = "keys" /\ Len(filteredKeys) = 0
    THEN settle(Progress(call.onProgress, filtered, 0, bdTotal))
    ELSE IF bdPc = "keys"
    THEN IF handle = NULL THEN [throw("Database not open") EXCEPT !.log = filtered]
         ELSE IF ~ok
         THEN [same EXCEPT !.pc = "delete", !.err = TRUE, !.keys = filteredKeys,
                  !.log = filtered]
         ELSE [same EXCEPT !.pc = "delete", !.keys = filteredKeys,
                  !.rows = [rows EXCEPT ![call.table] = DeleteIds(@, filteredKeys)],
                  !.log = [filtered EXCEPT !.deletes = @ + 1]]
    ELSE IF bdPc = "delete"
    THEN IF handle = NULL THEN throw("Database not open")
         ELSE [same EXCEPT !.pc = "vacuum", !.err = ~ok]
    ELSE IF bdPc = "vacuum"
    THEN settle(Progress(call.onProgress, log, Len(bdKeys), bdTotal))
    ELSE settle(Progress(call.onProgress, log, bdTotal, bdTotal))

(* bulkDelete(tableName, indexName, query, filterKeys, onProgress) up to   *)
(* its first await: the handle and indexName checks and the count query.   *)
(* indexName = "" stands for every indexName that is not a non-empty       *)
(* string.                                                                 *)
BulkDeleteBegin(call, ok) ==
    /\ NoBulkCalls
    /\ IF handle = NULL
       THEN /\ lastCall' = Call("bulkDelete", "Database not open", call, NewLog)
            /\ UNCHANGED bd
       ELSE IF call.indexName = ""
       THEN /\ lastCall' = Call("bulkDelete", "", call, NewLog)
            /\ UNCHANGED bd
       ELSE /\ bdCall' = call
            /\ bdPc' = "count"
            /\ bdErr' = (call.table \notin tables \/ ~ok)
            /\ bdTotal' = IF ok THEN Len(MatchingIds(call.table, call.indexName, call.query))
                          ELSE 0
            /\ bdKeys' = <<>>
            /\ bdLog' = NewLog
            /\ lastCall' = Call("bulkDelete", "pending", NoArgs, NoArgs)
    /\ UNCHANGED <<disk, nativeConns, db, openPc, openErr, openLocals, hist, ext, fm, bc, del>>

(* The running bulkDelete resumes after its await and runs to its next     *)
(* await, to its return or to the statement that throws                    *)
BulkDeleteAwaited(ok) ==
    LET s == BulkDeleteStep(ok)
    IN
    /\ bdPc # "idle"
    /\ rows' = s.rows
    /\ IF s.outcome = "pending"
       THEN /\ bdPc' = s.pc
            /\ bdErr' = s.err
            /\ bdKeys' = s.keys
            /\ bdLog' = [s.log EXCEPT !.seen = s.rows]
            /\ lastCall' = Call("bulkDelete", "pending", NoArgs, NoArgs)
            /\ UNCHANGED <<bdCall, bdTotal>>
       ELSE /\ bdCall' = NoCall /\ bdPc' = "idle" /\ bdErr' = FALSE /\ bdTotal' = 0
            /\ bdKeys' = <<>> /\ bdLog' = NoArgs
            /\ lastCall' = Call("bulkDelete", s.outcome, bdCall, s.log)
    /\ UNCHANGED <<userVersion, tables, indices, seq, nativeConns, db, openPc, openErr,
                   openLocals, hist, ext, fm, bc, del>>

(* The stores bulkDelete is called on *)
StoredForDelete ==
    { [t \in TableNames |->
          CASE t = "terms" -> <<Term1, Term3>>
            [] t = "kanji" -> <<Kanji1>>
            [] OTHER -> <<>>],
      [t \in TableNames |->
          CASE t = "terms" -> <<Term1>>
            [] OTHER -> <<>>],
      [t \in TableNames |->
          CASE t = "terms" -> <<Term3>>
            [] t = "kanji" -> <<Kanji2, Kanji1>>
            [] OTHER -> <<>>] }

(* The bulkDelete calls *)
BulkDeleteCalls ==
    {[table |-> t, indexName |-> i, query |-> "A", filterKeys |-> f, onProgress |-> p] :
        t \in {"terms", "kanji"}, i \in {"dictionary", ""},
        f \in {"null", "all", "first", "none"}, p \in {"null", "returns", "throws"}}

InitBulkDelete ==
    /\ userVersion = prepareVersion
    /\ tables = TableNames
    /\ indices = UNION {UNION {{<<st.name, st.indices[i]>> : i \in 1..Len(st.indices)} :
                                  st \in Range(e.stores)} : e \in Range(upgrade)}
    /\ \E docs \in StoredForDelete :
          /\ rows = [t \in TableNames |-> Stored(docs[t])]
          /\ seq = [t \in TableNames |-> Len(docs[t])]
    /\ nativeConns = {1}
    /\ handle = 1 /\ native = TRUE /\ isOpening = FALSE
    /\ openPc = "idle" /\ openErr = FALSE
    /\ openVersion = 0 /\ openStructure = <<>> /\ currentVersion = 0
    /\ tableExists = FALSE /\ si = 0 /\ ti = 0 /\ ii = 0
    /\ opened = TRUE /\ openPersisted = 0 /\ structureArg = <<>>
    /\ applied = <<>> /\ ddl = FALSE
    /\ lastCall = Call("bulkAdd", "", NoArgs, [executed |-> TRUE])
    /\ NoBulkCalls

NextBulkDelete ==
    \/ \E call \in BulkDeleteCalls, ok \in BOOLEAN : BulkDeleteBegin(call, ok)
    \/ \E ok \in BOOLEAN : BulkDeleteAwaited(ok)
    \/ seq["terms"] < MaxIds /\ BulkAdd("terms", <<Term1>>, 0, 1, TRUE)
    \/ Close

SpecBulkDelete == InitBulkDelete /\ [][NextBulkDelete]_vars

----------------------------------------------------------------------------
(* Properties *)

Versions == {e.version : e \in Range(upgrade)}

(* An open() call has just resolved *)
OpenResolved == lastCall.op = "open" /\ lastCall.err = ""

(* An open() call is running or has just resolved or rejected after running *)
OpenRan == lastCall.op = "open" /\ lastCall.err \in {"", "pending", "failing", "error"}

(* C1: the store is Open (isOpen() is true) only after an open() call has  *)
(* resolved: not while an open() is in progress, and not after an open()   *)
(* that failed.                                                            *)
C1_OpenOnlyAfterOpenResolved == isOpen => opened

(* C2: an open() rejected by its guards reports "Already opening" when     *)
(* another open() was in progress and "Database already open" when the     *)
(* store was Open.                                                         *)
C2_RejectedOpenNamesItsCause ==
    (lastCall.op = "open" /\ lastCall.err \in {"Database already open", "Already opening"})
    => /\ lastCall.r.wasOpening => lastCall.err = "Already opening"
       /\ lastCall.r.wasOpened => lastCall.err = "Database already open"

(* C3: close() succeeds only on a store that is Open; on any other store   *)
(* it throws.                                                              *)
C3_CloseSucceedsOnlyWhenOpen ==
    (lastCall.op = "close" /\ lastCall.err = "") => lastCall.a.wasOpened

(* C4: the versions open() hands to _applySchemaChanges are versions v of  *)
(* schema entries with persisted < v <= target, in ascending order; when   *)
(* open() resolves they are all of those versions.  The version open()     *)
(* compares with is the one persisted when it read it.                     *)
C4_AppliedInRangeAscending ==
    /\ OpenRan =>
         LET a == lastCall.a
             app == lastCall.r.applied
             inRange == {v \in Versions : a.persisted < v /\ v <= a.version}
         IN  /\ \A k \in 1..Len(app) : app[k] \in inRange
             /\ \A j, k \in 1..Len(app) : j < k => app[j] < app[k]
             /\ lastCall.err = "" => {app[k] : k \in 1..Len(app)} = inRange
    /\ (openPc = "user_version" /\ ~openErr) => currentVersion = userVersion

C4_Witness ==
    /\ OpenResolved
    /\ lastCall.a.structure = Permute(upgrade, <<3, 1, 5, 2, 4>>)
    /\ lastCall.a.persisted = 20 /\ lastCall.a.version = 60
    /\ lastCall.r.applied = <<30, 40, 50, 60>>

DeclaredTables(v) ==
    {st.name : st \in UNION {Range(e.stores) : e \in {x \in Range(upgrade) : x.version <= v}}}
DeclaredIndices(v) ==
    UNION {{<<st.name, st.indices[i]>> : i \in 1..Len(st.indices)} :
              st \in UNION {Range(e.stores) : e \in {x \in Range(upgrade) : x.version <= v}}}

(* C5: whenever the persisted version is v, every table and index declared *)
(* by the entries with version <= v exists, also after a migration was cut *)
(* off after any statement; an open() that resolves leaves the version at  *)
(* or above every entry within its target, and an open() to the newest     *)
(* version resolves with exactly the tables and indices of an              *)
(* uninterrupted migration.                                                *)
C5_VersionImpliesSchema ==
    /\ DeclaredTables(userVersion) \subseteq tables
    /\ DeclaredIndices(userVersion) \subseteq indices
    /\ OpenResolved =>
         /\ \A v \in Versions : v <= lastCall.a.version => v <= userVersion
         /\ lastCall.a.version >= prepareVersion =>
              /\ userVersion = prepareVersion
              /\ tables = DeclaredTables(prepareVersion)
              /\ indices = DeclaredIndices(prepareVersion)

C5_Witness ==
    /\ OpenResolved
    /\ lastCall.a.persisted = 20 /\ lastCall.a.version = 60
    /\ "termMeta" \in tables /\ userVersion = 60

(* C6: the persisted schema version never decreases *)
C6_VersionNeverDecreases == [][userVersion' >= userVersion]_vars

C6_Witness ==
    /\ OpenResolved
    /\ lastCall.a.persisted = 60 /\ lastCall.a.version = 30
    /\ userVersion = 60

(* C7: every step of an open() called when the persisted version equals    *)
(* its target, and every close(), issues no CREATE TABLE, no CREATE INDEX  *)
(* and no PRAGMA user_version = and leaves the file as it was.             *)
C7_ReopenChangesNothing ==
    [][ /\ (lastCall'.op = "open" /\ lastCall'.a.persisted = lastCall'.a.version
              /\ lastCall'.err \in {"", "pending", "failing", "error"})
           => (~lastCall'.r.ddl /\ lastCall'.r.applied = <<>> /\ disk' = disk)
        /\ lastCall'.op = "close" => disk' = disk ]_vars

C7_Witness ==
    /\ OpenResolved
    /\ lastCall.a.persisted = 60 /\ lastCall.a.version = 60
    /\ Len(rows["tagMeta"]) = 2

(* documents[start .. min(start + count, len)) *)
ClaimedRange(items, start, count) ==
    LET end == IF start + count < Len(items) THEN start + count ELSE Len(items)
    IN  [k \in 1..(IF end > start THEN end - start ELSE 0) |-> items[start + k]]

WithoutId(entry) == [f \in DOMAIN entry \ {"id"} |-> entry[f]]

(* C8: a bulkAdd that returns on an Open store appends exactly the         *)
(* documents of the clamped range, with ids no row had, and changes no     *)
(* other row; on an empty range it inserts nothing and issues no statement.*)
C8_BulkAddAppendsRange ==
    [][ (lastCall'.op = "bulkAdd" /\ lastCall'.err = "") =>
          LET a == lastCall'.a
              docs == ClaimedRange(a.items, a.start, a.count)
              before == AllEntries(rows[a.table])
              after == AllEntries(rows'[a.table])
              n == Len(before)
          IN  /\ Len(after) = n + Len(docs)
              /\ SubSeq(after, 1, n) = before
              /\ \A k \in 1..Len(docs) :
                    /\ WithoutId(after[n + k]) = WithoutId(docs[k])
                    /\ \A j \in 1..(n + k - 1) : after[j].id # after[n + k].id
              /\ \A t \in TableNames \ {a.table} : rows'[t] = rows[t]
              /\ docs = <<>> => (rows' = rows /\ ~lastCall'.r.executed) ]_vars

C8_Witness ==
    /\ lastCall.op = "bulkAdd" /\ lastCall.err = "" /\ lastCall.r.executed
    /\ lastCall.a.items = <<Doc1, Doc2, Doc3>>
    /\ lastCall.a.start = 1 /\ lastCall.a.count = 1
    /\ Len(rows["tagMeta"]) = 2

(* C9: bulkAdd on a store that is not Open (closed, or with an open() in   *)
(* progress) throws "Database not open" and inserts no row.                *)
C9_BulkAddNeedsOpenStore ==
    (lastCall.op = "bulkAdd" /\ ~lastCall.a.opened) => lastCall.err = "Database not open"

----------------------------------------------------------------------------
(* Bulk lookups *)

(* findMultiBulk is about to return fmResults *)
Returning == fmCall # NoCall /\ DOMAIN fmPending = {}

(* The values findMultiBulk returns *)
Returned == [e \in 1..Len(fmResults) |-> fmResults[e].value]

(* The stored row at position k of the table of the running call, as parsed *)
StoredRow(k) == ParsedRow(rows[fmCall.table][k])

(* The sub-query of items[i] and indexColumns[j] selects the stored row k *)
Selects(i, j, k) ==
    FieldEquals(rows[fmCall.table][k].data, fmCall.indexColumns[j],
                CreateQuery(fmCall.createQuery, fmCall.items[i]))

Triples ==
    (1..Len(fmCall.items)) \X (1..Len(fmCall.indexColumns)) \X (1..Len(rows[fmCall.table]))

(* The results pushed for the triple t *)
ResultsOf(t) ==
    {e \in 1..Len(fmResults) :
        /\ fmResults[e].data.itemIndex = t[1] - 1
        /\ fmResults[e].data.indexIndex = t[2] - 1
        /\ fmResults[e].row.id = rows[fmCall.table][t[3]].id}

(* C11: with a predicate that has no side effect, findMultiBulk returns,   *)
(* under every completion order of its sub-queries, exactly one result for *)
(* every (item, index column, stored row) whose column equals the key of   *)
(* the item and whose row passes the predicate, and no other result; each  *)
(* result is createResult of that row and of the {item, itemIndex,         *)
(* indexIndex} of that pair.                                               *)
C11_FindMultiBulkOnePerTriple ==
    (Returning /\ fmCall.predicate # "findTermsBulk") =>
        /\ \A t \in Triples :
              LET matches == /\ Selects(t[1], t[2], t[3])
                             /\ Predicate(fmCall.predicate, StoredRow(t[3]),
                                          fmCall.items[t[1]], fmCall.dictionaries, {})
              IN  /\ Cardinality(ResultsOf(t)) = IF matches THEN 1 ELSE 0
                  /\ \A e \in ResultsOf(t) :
                        Returned[e] =
                            CreateResult(fmCall.createResult, fmCall.matchType,
                                         StoredRow(t[3]),
                                         [item |-> fmCall.items[t[1]],
                                          itemIndex |-> t[1] - 1,
                                          indexIndex |-> t[2] - 1]).value
        /\ \A e \in 1..Len(fmResults) : \E t \in Triples : e \in ResultsOf(t)

(* Results of both index columns, in an order that is not the order the    *)
(* sub-queries were issued in, and a selected row the predicate rejects    *)
C11_Witness ==
    /\ Returning
    /\ fmCall.method = "findMultiBulk"
    /\ Len(fmResults) >= 3
    /\ \E e, f \in 1..Len(fmResults) :
          /\ e < f
          /\ fmResults[e].data.itemIndex > fmResults[f].data.itemIndex
          /\ fmResults[e].data.indexIndex # fmResults[f].data.indexIndex
    /\ \E t \in Triples : Selects(t[1], t[2], t[3]) /\ ResultsOf(t) = {}

(* The items, the key of each, and the rows of a findFirstBulk call *)
FirstBulkKey(i) == CreateQuery(lastCall.a.call.createQuery, lastCall.a.call.items[i])
FirstBulkMatching(i) ==
    {k \in 1..Len(rows[lastCall.a.call.table]) :
        FieldEquals(rows[lastCall.a.call.table][k].data, lastCall.a.call.indexColumns[1],
                    FirstBulkKey(i))}
FirstBulkPasses(i, row) ==
    Predicate(lastCall.a.call.predicate, row, lastCall.a.call.items[i],
              lastCall.a.call.dictionaries, {})

(* C12: findFirstBulk returns one slot per item, in the order of items.    *)
(* Slot i is undefined when no stored row has the key of items[i] in the   *)
(* index column, or when the predicate fails for a row of that key; else   *)
(* it is a stored row that has the key and passes the predicate.           *)
C12_FindFirstBulkSlots ==
    (lastCall.op = "findFirstBulk" /\ lastCall.err = "") =>
        /\ Len(lastCall.r) = Len(lastCall.a.call.items)
        /\ \A i \in 1..Len(lastCall.r) :
              LET rs == rows[lastCall.a.call.table]
              IN  IF lastCall.r[i].kind = "undefined"
                  THEN \/ FirstBulkMatching(i) = {}
                       \/ \E k \in FirstBulkMatching(i) :
                             ~FirstBulkPasses(i, ParsedRow(rs[k]))
                  ELSE \E k \in FirstBulkMatching(i) :
                          /\ lastCall.r[i].row = ParsedRow(rs[k])
                          /\ FirstBulkPasses(i, lastCall.r[i].row)

(* Three items: a slot with a row, a slot without a row of the key, and a  *)
(* slot whose row fails the predicate                                      *)
C12_Witness ==
    /\ lastCall.op = "findFirstBulk" /\ lastCall.err = ""
    /\ Len(lastCall.r) = 3
    /\ \E i, j, l \in 1..3 :
          /\ lastCall.r[i].kind = "row"
          /\ lastCall.r[j].kind = "undefined" /\ FirstBulkMatching(j) = {}
          /\ lastCall.r[l].kind = "undefined" /\ FirstBulkMatching(l) # {}

(* C13: when several stored rows share a key, findFirstBulk resolves the   *)
(* key to the first of them the query returned, and tests the predicate on *)
(* that row alone.                                                         *)
C13_FirstMatchWins ==
    (lastCall.op = "findFirstBulk" /\ lastCall.err = "") =>
        \A i \in 1..Len(lastCall.r) :
            LET rs == lastCall.a.returned
                at == {k \in 1..Len(rs) :
                          FieldEquals(rs[k].data, lastCall.a.call.indexColumns[1],
                                      FirstBulkKey(i))}
                first == CHOOSE k \in at : \A l \in at : k <= l
            IN  at # {} =>
                   lastCall.r[i] = IF FirstBulkPasses(i, ParsedRow(rs[first]))
                                   THEN Found(ParsedRow(rs[first]))
                                   ELSE UndefinedSlot

(* bulkCount is about to return bcResults *)
CountReturning == bcCall # NoCall /\ DOMAIN bcPending = {}

(* C14: bulkCount returns one count per operation, in the order of the     *)
(* operations: for a null value the number of rows of the table, for every *)
(* other value, the empty string too, the number of rows whose field       *)
(* equals the value, whatever the order the count queries complete in.     *)
C14_BulkCountCounts ==
    CountReturning =>
        /\ DOMAIN bcResults = 1..Len(bcCall.operations)
        /\ \A k \in 1..Len(bcCall.operations) :
              LET op == bcCall.operations[k]
              IN  bcResults[k] =
                     IF op.query.null THEN Len(rows[op.table])
                     ELSE Cardinality({l \in 1..Len(rows[op.table]) :
                              FieldEquals(rows[op.table][l].data, op.column,
                                          op.query.value)})

IsPrefix(p, t) == Len(p) <= Len(t) /\ SubSeq(t, 1, Len(p)) = p
IsSuffix(p, t) == Len(p) <= Len(t) /\ SubSeq(t, Len(t) - Len(p) + 1, Len(t)) = p

TermsReturning(matchType) ==
    Returning /\ fmCall.method = "findTermsBulk" /\ fmCall.matchType = matchType

(* C15: findTermsBulk(termList, dictionaries, 'prefix') returns every      *)
(* terms row of an enabled dictionary whose expression or reading begins   *)
(* with one of the terms.                                                  *)
C15_PrefixFindsRowsBeginningWithTerm ==
    TermsReturning("prefix") =>
        \A k \in 1..Len(rows["terms"]) :
            LET row == StoredRow(k)
            IN  (/\ row.dictionary \in fmCall.dictionaries
                 /\ \E i \in 1..Len(fmCall.items) :
                       \/ IsPrefix(fmCall.items[i], row.expression)
                       \/ IsPrefix(fmCall.items[i], row.reading))
                => \E e \in 1..Len(Returned) : Returned[e].id = row.id

(* C16: findTermsBulk(termList, dictionaries, 'suffix') returns every      *)
(* terms row of an enabled dictionary whose expression or reading ends     *)
(* with one of the terms, with matchType 'suffix', or 'exact' when the     *)
(* term is the whole field.                                                *)
C16_SuffixFindsRowsEndingWithTerm ==
    TermsReturning("suffix") =>
        \A k \in 1..Len(rows["terms"]) :
            LET row == StoredRow(k)
            IN  (/\ row.dictionary \in fmCall.dictionaries
                 /\ \E i \in 1..Len(fmCall.items) :
                       \/ IsSuffix(fmCall.items[i], row.expression)
                       \/ IsSuffix(fmCall.items[i], row.reading))
                => \E e \in 1..Len(Returned) :
                      /\ Returned[e].id = row.id
                      /\ Returned[e].matchType \in {"suffix", "exact"}

(* What C17 says of one entry built for the input term item through the    *)
(* index of position indexIndex                                            *)
ExactWhenVerbatim(entry, item, indexIndex) ==
    LET matched == IF indexIndex = 0 THEN entry.term ELSE entry.reading
    IN  /\ matched = item => entry.matchType = "exact"
        /\ entry.matchType \in {"prefix", "suffix"} => matched # item
        /\ entry.matchSource = IF indexIndex = 0 THEN "term" ELSE "reading"

SelectedBy(k) ==
    {p \in SubQueries(fmCall) : Selects(p[1], p[2], k)}

(* C18: in the result of one findTermsBulk call no two entries have the    *)
(* same row id, and every terms row of an enabled dictionary that a (term, *)
(* index field) pair selects is there exactly once, under every completion *)
(* order of the sub-queries.                                               *)
C18_EachRowOnce ==
    (Returning /\ fmCall.method = "findTermsBulk") =>
        /\ \A e, f \in 1..Len(Returned) : Returned[e].id = Returned[f].id => e = f
        /\ \A k \in 1..Len(rows["terms"]) :
              (SelectedBy(k) # {} /\ StoredRow(k).dictionary \in fmCall.dictionaries)
              => Cardinality({e \in 1..Len(Returned) :
                                 Returned[e].id = StoredRow(k).id}) = 1
        /\ \A e \in 1..Len(Returned) :
              \E k \in 1..Len(rows["terms"]) :
                  Returned[e].id = StoredRow(k).id /\ SelectedBy(k) # {}

(* A row that both index fields and two input terms select *)
C18_Witness ==
    /\ Returning /\ fmCall.method = "findTermsBulk"
    /\ \E k \in 1..Len(rows["terms"]) :
          /\ Cardinality(SelectedBy(k)) = 4
          /\ \E e \in 1..Len(Returned) :
                Returned[e].id = StoredRow(k).id /\ fmResults[e].data.indexIndex = 1

FilteredLookups ==
    {"findTermsBulk", "findTermsExactBulk", "findTermMetaBulk", "findKanjiBulk",
     "findKanjiMetaBulk"}

(* C19: every entry that findTermsBulk, findTermsExactBulk,                *)
(* findTermMetaBulk, findKanjiBulk and findKanjiMetaBulk return has a      *)
(* dictionary of the set of enabled dictionaries given to the call, and    *)
(* with an empty set they return nothing.                                  *)
C19_OnlyEnabledDictionaries ==
    (Returning /\ fmCall.method \in FilteredLookups) =>
        /\ \A e \in 1..Len(Returned) : Returned[e].dictionary \in fmCall.dictionaries
        /\ fmCall.dictionaries = {} => Returned = <<>>

(* A lookup that returns an entry and whose key also selects a row of a    *)
(* dictionary that is not enabled                                          *)
C19_Witness ==
    /\ Returning /\ fmCall.method = "findKanjiMetaBulk"
    /\ Len(Returned) >= 1
    /\ \E k \in 1..Len(rows[fmCall.table]) :
          /\ SelectedBy(k) # {}
          /\ StoredRow(k).dictionary \notin fmCall.dictionaries

----------------------------------------------------------------------------
(* Deleting a dictionary *)

(* The rows of table whose field indexName is query *)
RowsOf(table, indexName, query) ==
    {k \in 1..Len(rows[table]) : FieldEquals(rows[table][k].data, indexName, query)}

(* deleteDictionary has resolved *)
DeleteResolved == lastCall.op = "deleteDictionary" /\ lastCall.err = ""

(* C20: once deleteDictionary(name) has resolved, no row of kanji,         *)
(* kanjiMeta, terms, termMeta, tagMeta or media has dictionary = name and  *)
(* no row of dictionaries has title = name.                                *)
C20_NoRowOfDeletedDictionary ==
    DeleteResolved =>
        \A t \in ContentTables \cup {ManifestTable} :
            RowsOf(t, IndexOfTarget(t), lastCall.a.name) = {}

(* The manifest bulkDelete of deleteDictionary has been called *)
ManifestDeleteStarted == delPc[ManifestTable] # "idle"

(* C21: in every execution of deleteDictionary, also when a content-table  *)
(* deletion fails, the bulkDelete on dictionaries does not start before    *)
(* the six content-table bulkDeletes have finished.                        *)
C21_ManifestAfterContent ==
    ManifestDeleteStarted => \A t \in ContentTables : delPc[t] \in Settled

(* C22: if a bulkDelete issued by deleteDictionary fails (native error,    *)
(* store not open), deleteDictionary rejects: it does not resolve with a   *)
(* failed deletion, and so not with rows left behind by one.               *)
C22_FailedDeleteRejects ==
    DeleteResolved => lastCall.a.failed = {}

----------------------------------------------------------------------------
(* bulkDelete *)

(* A bulkDelete call has resolved; its arguments and its log *)
BulkDeleteResolved == lastCall.op = "bulkDelete" /\ lastCall.err = ""
BulkDeleteArgs == lastCall.a
BulkDeleteLog == lastCall.r

(* The row r has the value of the call in the field of the call *)
Matches(r) == FieldEquals(r.data, BulkDeleteArgs.indexName, BulkDeleteArgs.query)

(* The rows of the table of the call in the tables rs that match the call *)
MatchingRows(rs) == {r \in Range(rs[BulkDeleteArgs.table]) : Matches(r)}

(* The rows of the tables rs that are not stored any more *)
Deleted(rs) == [t \in TableNames |-> Range(rs[t]) \ Range(rows[t])]

(* C23: bulkDelete(table, indexField, key) without filterKeys, on an open  *)
(* store that nothing else writes to, deletes every row of table whose     *)
(* indexField is key and no other row of that table or of another table.   *)
C23_DeletesMatchingRowsOnly ==
    (/\ BulkDeleteResolved
     /\ BulkDeleteArgs.filterKeys = "null" /\ BulkDeleteArgs.indexName # ""
     /\ ~BulkDeleteLog.written) =>
        /\ Deleted(BulkDeleteLog.atCall) =
              [t \in TableNames |->
                  IF t = BulkDeleteArgs.table THEN MatchingRows(BulkDeleteLog.atCall)
                  ELSE {}]
        /\ \A t \in TableNames : Range(rows[t]) \subseteq Range(BulkDeleteLog.atCall[t])

(* A call without filterKeys has deleted a row of a table and left a row   *)
(* of that table and a row of another table                                *)
C23_Witness ==
    /\ BulkDeleteResolved
    /\ BulkDeleteArgs.filterKeys = "null" /\ BulkDeleteArgs.indexName # ""
    /\ ~BulkDeleteLog.written
    /\ Deleted(BulkDeleteLog.atCall)[BulkDeleteArgs.table] # {}
    /\ rows[BulkDeleteArgs.table] # <<>>
    /\ \E t \in TableNames \ {BulkDeleteArgs.table} : rows[t] # <<>>

(* The call was given a filterKeys function and a row matched when it was  *)
(* called                                                                  *)
Filtering ==
    /\ BulkDeleteResolved
    /\ BulkDeleteArgs.filterKeys # "null" /\ BulkDeleteArgs.indexName # ""
    /\ MatchingRows(BulkDeleteLog.atCall) # {}

(* C24: when filterKeys is supplied and a row matches, filterKeys is       *)
(* called exactly once, with the ids of all rows whose indexField is key;  *)
(* the rows deleted are exactly the rows whose ids it returned, the        *)
(* matching rows it left out stay, and when it returns no id no DELETE is  *)
(* executed.                                                               *)
C24_DeletesFilteredKeys ==
    Filtering =>
        /\ Len(BulkDeleteLog.filterKeys) = 1
        /\ Range(BulkDeleteLog.filterKeys[1]) =
              {r.id : r \in MatchingRows(BulkDeleteLog.atRead)}
        /\ Deleted(BulkDeleteLog.atRead) =
              [t \in TableNames |->
                  IF t = BulkDeleteArgs.table
                  THEN {r \in Range(BulkDeleteLog.atRead[t]) :
                           r.id \in Range(BulkDeleteLog.filtered)}
                  ELSE {}]
        /\ BulkDeleteLog.filtered = <<>> => BulkDeleteLog.deletes = 0

(* filterKeys was given two ids and returned one of them: one row has been *)
(* deleted and the other matching row is stored                            *)
C24_Witness ==
    /\ Filtering
    /\ Len(BulkDeleteLog.filterKeys[1]) = 2
    /\ Len(BulkDeleteLog.filtered) = 1
    /\ Deleted(BulkDeleteLog.atRead)[BulkDeleteArgs.table] # {}
    /\ \E r \in Range(rows[BulkDeleteArgs.table]) :
          Matches(r) /\ r.id \in Range(BulkDeleteLog.filterKeys[1])

(* The last call of onProgress, as <<completed, total>> *)
LastProgress == BulkDeleteLog.onProgress[Len(BulkDeleteLog.onProgress)]

(* C25: a bulkDelete call that resolves and was given an onProgress        *)
(* callback has called it at least once, and the last call has completed   *)
(* = total, also when filterKeys left keys out and when rows were added    *)
(* between the count query and the key query.                              *)
C25_LastProgressIsComplete ==
    (/\ BulkDeleteResolved
     /\ BulkDeleteArgs.onProgress # "null" /\ BulkDeleteArgs.indexName # "") =>
        /\ Len(BulkDeleteLog.onProgress) >= 1
        /\ LastProgress[1] = LastProgress[2]

(* A bulkDelete call has run to its end on a table in which no row         *)
(* matched: it has resolved, or its onProgress callback has thrown         *)
NothingMatched ==
    /\ lastCall.op = "bulkDelete" /\ lastCall.err \in {"", "onProgress threw"}
    /\ BulkDeleteArgs.indexName # ""
    /\ MatchingRows(BulkDeleteLog.atCall) = {}

(* C26: bulkDelete on a table in which no row has indexField equal to key  *)
(* calls onProgress exactly once, with (0, 0), does not call filterKeys,   *)
(* executes no DELETE statement and leaves every table as it is.           *)
C26_NoMatchNoDelete ==
    NothingMatched =>
        /\ BulkDeleteArgs.onProgress # "null" => BulkDeleteLog.onProgress = << <<0, 0>> >>
        /\ BulkDeleteLog.filterKeys = <<>>
        /\ BulkDeleteLog.deletes = 0
        /\ \A t \in TableNames : Deleted(BulkDeleteLog.atCall)[t] = {}
        /\ ~BulkDeleteLog.written => rows = BulkDeleteLog.atCall

(* A call with filterKeys and onProgress on a table that holds rows, none  *)
(* of them matching, has resolved                                          *)
C26_Witness ==
    /\ NothingMatched /\ lastCall.err = ""
    /\ BulkDeleteArgs.onProgress = "returns" /\ BulkDeleteArgs.filterKeys = "all"
    /\ BulkDeleteLog.atCall[BulkDeleteArgs.table] # <<>>
    /\ BulkDeleteLog.onProgress = << <<0, 0>> >>

(* C27: when the onProgress callback given to bulkDelete throws, the       *)
(* error is swallowed and bulkDelete resolves.                             *)
C27_ThrowingProgressIsSwallowed ==
    (/\ lastCall.op = "bulkDelete" /\ lastCall.err # "pending"
     /\ BulkDeleteArgs.onProgress = "throws"
     /\ Len(BulkDeleteLog.onProgress) >= 1) =>
        lastCall.err = ""

(* The ids of the rows inserted into the table of the call after the call  *)
(* last read it                                                            *)
InsertedSinceRead ==
    (BulkDeleteLog.idsAtRead[BulkDeleteArgs.table] + 1)..seq[BulkDeleteArgs.table]

(* C28: bulkDelete deletes only rows that matched when it read the table:  *)
(* a row that a bulkAdd inserts between the reads of bulkDelete and its    *)
(* DELETE statement is not deleted, with and without filterKeys.           *)
C28_InterleavedInsertIsKept ==
    (BulkDeleteResolved /\ BulkDeleteArgs.indexName # "") =>
        /\ Deleted(BulkDeleteLog.atRead)[BulkDeleteArgs.table]
              \subseteq MatchingRows(BulkDeleteLog.atRead)
        /\ \A id \in InsertedSinceRead :
              \E r \in Range(rows[BulkDeleteArgs.table]) : r.id = id

----------------------------------------------------------------------------
(* Progress of deleteDictionary *)

(* deleteDictionary has resolved after seven bulkDelete calls that have    *)
(* all resolved                                                            *)
DeleteSucceeded ==
    DeleteResolved /\ lastCall.a.failed = {} /\ lastCall.a.running = {}

(* The progress notifications sent by the step just taken *)
Notifications == IF lastCall.op = "bulkDelete" THEN Range(lastCall.r.sent) ELSE {}

(* C29: processed counts the deleted rows: when deleteDictionary completes *)
(* successfully processed = count, the number of matched ids over the      *)
(* seven tables, and no progress notification carries a processed that     *)
(* exceeds its count.                                                      *)
C29_ProcessedCountsDeletedRows ==
    /\ DeleteSucceeded => lastCall.r.processed = lastCall.r.count
    /\ \A msg \in Notifications : msg.processed <= msg.count

----------------------------------------------------------------------------
(* getDictionaryCounts *)

(* getDictionaryCounts is about to return; what it returns *)
CountsReturning ==
    bcCall # NoCall /\ bcCall.method = "getDictionaryCounts" /\ DOMAIN bcPending = {}
CountsResult == DictionaryCounts(bcCall.dictionaryNames, bcCall.getTotal, bcResults)

(* The number of rows of table t whose dictionary is name *)
RowsOfDictionary(t, name) == Cardinality(RowsOf(t, "dictionary", name))

(* C30: getDictionaryCounts(names, getTotal) returns one entry of counts   *)
(* per name, in the order of names, whose value for each of the six tables *)
(* is the number of rows of the table whose dictionary is the name; total  *)
(* is there exactly when getTotal, and its value for a table is the number *)
(* of all rows of the table.                                               *)
C30_CountsPerDictionary ==
    CountsReturning =>
        /\ Len(CountsResult.counts) = Len(bcCall.dictionaryNames)
        /\ \A i \in 1..Len(bcCall.dictionaryNames) :
              /\ DOMAIN CountsResult.counts[i] = Range(CountTables)
              /\ \A t \in Range(CountTables) :
                    CountsResult.counts[i][t] =
                       RowsOfDictionary(t, bcCall.dictionaryNames[i])
        /\ CountsResult.total.null = ~bcCall.getTotal
        /\ bcCall.getTotal =>
              \A t \in Range(CountTables) : CountsResult.total.value[t] = Len(rows[t])

----------------------------------------------------------------------------
(* purge and deleteDatabase *)

(* A purge() or deleteDatabase() call made while an open() was in progress *)
(* has settled                                                             *)
CalledWhileOpening ==
    /\ lastCall.op \in {"purge", "deleteDatabase"} /\ lastCall.err # "pending"
    /\ lastCall.a.opening

(* C31: purge() and deleteDatabase(name) called while an open() of the     *)
(* store is in progress are refused with an error.                         *)
C31_RefusedWhileOpening ==
    CalledWhileOpening => lastCall.err # ""

(* C32: purge() called on a prepared DictionaryDatabase that holds rows    *)
(* completes without throwing, with the store open at version 60, the      *)
(* seven tables present and no row in them.                                *)
C32_PurgeLeavesEmptyStore ==
    (/\ lastCall.op = "purge" /\ lastCall.err # "pending"
     /\ lastCall.a.open /\ ~lastCall.a.opening /\ lastCall.a.held) =>
        /\ lastCall.err = ""
        /\ handle # NULL /\ userVersion = prepareVersion /\ tables = TableNames
        /\ \A t \in TableNames : rows[t] = <<>>

----------------------------------------------------------------------------
(* Documents that are not well-formed *)

(* A call that reads a table has settled *)
ReadSettled ==
    /\ lastCall.op \in {"getAllEntries", "findMultiBulk", "findFirstBulk"}
    /\ lastCall.err # "pending"

(* C33: a stored row whose document cannot be parsed never makes           *)
(* getAllEntries, findMultiBulk or findFirstBulk throw.                    *)
C33_MalformedRowIsIsolated ==
    ReadSettled => lastCall.err = ""

----------------------------------------------------------------------------
(* Modes of meta rows *)

(* C34: findTermMetaBulk and findKanjiMetaBulk fail when a matched row of  *)
(* an enabled dictionary has a mode other than freq, pitch and ipa: they   *)
(* do not return, with the row left out or with the row and its mode.      *)
C34_UnknownModeFails ==
    (Returning /\ fmCall.method \in {"findTermMetaBulk", "findKanjiMetaBulk"}) =>
        \A k \in 1..Len(rows[fmCall.table]) :
            (SelectedBy(k) # {} /\ StoredRow(k).dictionary \in fmCall.dictionaries)
                => StoredRow(k).mode \in KnownModes

----------------------------------------------------------------------------
(* Rows of other dictionaries *)

(* The rows of table t that do not belong to the dictionary name *)
OtherRows(t, name) ==
    {r \in Range(rows[t]) : ~FieldEquals(r.data, IndexOfTarget(t), name)}

(* C35: deleteDictionary(name) changes only rows of the named dictionary:  *)
(* in every step of every interleaving of its bulkDelete calls, the rows   *)
(* of the six content tables whose dictionary is not name and the rows of  *)
(* dictionaries whose title is not name stay as they are, and no row is    *)
(* added.                                                                  *)
C35_OtherDictionariesUntouched ==
    [][\A t \in TableNames :
          /\ OtherRows(t, delName') \subseteq Range(rows'[t])
          /\ Range(rows'[t]) \subseteq Range(rows[t])]_vars

(* deleteDictionary('A') has resolved: the row of A is gone from terms and *)
(* from dictionaries, the rows of B are stored                             *)
C35_Witness ==
    /\ DeleteSucceeded /\ lastCall.a.name = "A"
    /\ Len(rows["terms"]) = 1 /\ OtherRows("terms", "A") = Range(rows["terms"])
    /\ Len(rows["dictionaries"]) = 1
    /\ OtherRows("dictionaries", "A") = Range(rows["dictionaries"])

(* The positions in wkPosted of the messages of an action *)
PostedAt(action) == {k \in 1..Len(wkPosted) : wkPosted[k].action = action}

ReceivedAt(action) == {k \in 1..Len(inv.received) : inv.received[k].action = action}

(* C37: the promise of _invoke is settled at most once.  Until the worker  *)
(* has received a 'complete' message nothing is settled and every          *)
(* 'progress' message is forwarded; the first 'complete' message rejects   *)
(* with the deserialized error or resolves with the formatted result,      *)
(* removes the listeners and sets details.complete; no message received    *)
(* after it settles the promise again or is forwarded.                     *)
C37_SettledAtMostOnce ==
    /\ Len(inv.settled) <= 1
    /\ wkPc # "idle" =>
          IF ReceivedAt("complete") = {}
          THEN /\ inv.settled = <<>> /\ ~inv.complete /\ inv.listeners = Listeners
               /\ Len(inv.forwarded) = Cardinality(ReceivedAt("progress"))
          ELSE LET first == CHOOSE k \in ReceivedAt("complete") :
                                \A j \in ReceivedAt("complete") : k <= j
                   params == inv.received[first].params
               IN
               /\ inv.complete /\ inv.listeners = <<>>
               /\ inv.settled =
                     << IF "error" \in DOMAIN params
                        THEN [call |-> "reject", value |-> params.error.message]
                        ELSE [call |-> "resolve",
                              value |-> IF inv.formatResult = "null" THEN params.result
                                        ELSE [result |-> params.result.result,
                                              errors |-> params.result.errors]] >>
               /\ Len(inv.forwarded) = Cardinality({j \in ReceivedAt("progress") : j < first})

(* C37 witness: after the first 'complete' the worker was sent a second    *)
(* 'complete' and a 'progress', and the promise is settled once            *)
C37_Witness ==
    \E first \in ReceivedAt("complete"), second \in ReceivedAt("complete"),
       late \in ReceivedAt("progress") :
          /\ first < second /\ first < late
          /\ Len(inv.settled) = 1 /\ inv.forwarded = <<>>

(* C38: a callback is invoked at most once, with the response to the       *)
(* message it was supplied with and to no other; the ids handed out so far *)
(* are the numbers below messageId, one per message; the registry entry of *)
(* an invoked callback is removed.                                         *)
C38_ResponseReachesItsCallback ==
    /\ \A i \in 1..Len(invoked), j \in 1..Len(invoked) :
          i # j => invoked[i].callback # invoked[j].callback
    /\ \A i \in 1..Len(invoked) :
          /\ invoked[i].callback = invoked[i].response
          /\ invoked[i].callback \notin DOMAIN callbackRegistry
    /\ DOMAIN callbackRegistry \subseteq 0..(messageId - 1)
    /\ \A closure \in responders : closure.sent < messageId

(* C39: kmpJsBridge.callNative is given the messages in the order in which *)
(* postMessageToNative was given them.                                     *)
C39_DeliveredInPostingOrder ==
    \A i \in 1..Len(delivered), j \in 1..Len(delivered) :
        i < j => delivered[i].message < delivered[j].message

(* The number of times a message is in a sequence of payloads *)
Times(payloads, n) == Cardinality({k \in 1..Len(payloads) : payloads[k].message = n})

(* C40: a posted message is either waiting in nativeMessageQueue or has    *)
(* been delivered, once; while messages wait a flush is scheduled and its  *)
(* timer is pending; at most one timer is pending; a message that waits    *)
(* when the bridge is there is delivered.                                  *)
C40_QueuedIsDeliveredOnce ==
    /\ [](/\ \A n \in 1..postedCount :
                Times(nativeMessageQueue, n) + Times(delivered, n) = 1
          /\ nativeMessageQueue # <<>> => nativeQueueFlushScheduled /\ timers = 1
          /\ timers <= 1)
    /\ \A n \in 1..MaxPosts :
          (kmpJsBridge /\ Times(nativeMessageQueue, n) = 1) ~> (Times(delivered, n) = 1)

(* C40 witness: a flush has handed two waiting messages to the bridge *)
C40_Witness ==
    /\ lastCall.op = "flushNativeMessageQueue" /\ lastCall.a.bridge
    /\ Len(lastCall.a.queue) >= 2
    /\ nativeMessageQueue = <<>> /\ Len(delivered) >= 2
====
